---- MODULE Spec2Model ----
(***************************************************************************)
(* ColorSign: an ML-DSA (FIPS 204) signature library.  This module models  *)
(* the Keccak sponge and the SHAKE samplers (utils.cpp), the scalar NTT    *)
(* engine (ntt_scalar.cpp), the color codec (color_integration.cpp), key   *)
(* generation, signing and verification, the COSE_Sign1 envelope           *)
(* (cose.cpp), the parameter sets (parameters.cpp), the checks of the      *)
(* context string, the traces of the NTT operations, operations that run   *)
(* in parallel threads, the modular reductions and the rounding, the       *)
(* samplers of the challenge and of the binomial polynomial, and the       *)
(* padding of the sponge.                                                  *)
(*                                                                         *)
(* Representation.  TLC's integers are 32 bits wide, so a 64-bit Keccak    *)
(* lane is the set of the positions (0..63) of its one bits: XOR is the    *)
(* symmetric difference, a rotation shifts the positions modulo 64.  The   *)
(* C arrays indexed from 0 are sequences indexed from 1: element i of the  *)
(* code is element i + 1 of the model.  A byte is a number in 0..255.      *)
(***************************************************************************)
EXTENDS Integers, Sequences, FiniteSets, TLC

VARIABLES
    xof,    \* a SHAKE128Sampler / SHAKE256Sampler object and its call history
    ntt,    \* a polynomial handed to a ScalarNTTEngine and what it has become
    dsa,    \* the keys, calls and results of KeyGen, Sign and Verify
    rej,    \* the control state of the rejection loop of Sign
    col,    \* a polynomial vector, its color encoding and what decoding returned
    cose,   \* a COSE_Sign1 value, its CBOR encoding and what was read back
    par,    \* a CLWEParameters object and the outcome of its validation
    chk,    \* a message and a context string, and what the validator and sign said of them
    ct,     \* two calls of one NTT operation on operands of their own, with the traces of both
    thr,    \* two threads, the operation and the sampler of each, and how far each has come
    ari,    \* the argument of one call of a reduction or of the rounding, and what it returned
    smp,    \* a seed and the parameters of one sampling call, and the polynomial it wrote
    pad     \* an input of shake256 or of a sampler, the state its padding made and the output

vars == <<xof, ntt, dsa, rej, col, cose, par, chk, ct, thr, ari, smp, pad>>

\* The value of a variable in the runs of a component that does not use it.
Idle == [phase |-> "idle"]

Min(a, b) == IF a < b THEN a ELSE b

(***************************************************************************)
(* Keccak-f[1600]                                                          *)
(***************************************************************************)

\* KECCAK_RC[round + 1] is the round constant, as the set of its one bits.
KECCAK_RC == <<
    {0},                       \* 0x0000000000000001
    {1, 7, 15},                \* 0x0000000000008082
    {1, 3, 7, 15, 63},         \* 0x800000000000808A
    {15, 31, 63},              \* 0x8000000080008000
    {0, 1, 3, 7, 15},          \* 0x000000000000808B
    {0, 31},                   \* 0x0000000080000001
    {0, 7, 15, 31, 63},        \* 0x8000000080008081
    {0, 3, 15, 63},            \* 0x8000000000008009
    {1, 3, 7},                 \* 0x000000000000008A
    {3, 7},                    \* 0x0000000000000088
    {0, 3, 15, 31},            \* 0x0000000080008009
    {1, 3, 31},                \* 0x000000008000000A
    {0, 1, 3, 7, 15, 31},      \* 0x000000008000808B
    {0, 1, 3, 7, 63},          \* 0x800000000000008B
    {0, 3, 7, 15, 63},         \* 0x8000000000008089
    {0, 1, 15, 63},            \* 0x8000000000008003
    {1, 15, 63},               \* 0x8000000000008002
    {7, 63},                   \* 0x8000000000000080
    {1, 3, 15},                \* 0x000000000000800A
    {1, 3, 31, 63},            \* 0x800000008000000A
    {0, 7, 15, 31, 63},        \* 0x8000000080008081
    {7, 15, 63},               \* 0x8000000000008080
    {0, 31},                   \* 0x0000000080000001
    {3, 15, 31, 63} >>         \* 0x8000000080008008

KECCAK_RHO_OFFSETS == <<
    0, 1, 62, 28, 27,
    36, 44, 6, 55, 20,
    3, 10, 43, 25, 39,
    41, 45, 15, 21, 8,
    18, 2, 61, 56, 14 >>

\* a ^ b on 64-bit lanes
Xor(a, b) == (a \ b) \cup (b \ a)

\* (v << offset) | (v >> (64 - offset)).  For offset = 0 the code shifts right
\* by 64, which C++ leaves undefined; the builds yield either v or 0 for that
\* shift, and OR-ing either with v << 0 gives v.
Rotl(v, offset) == {(i + offset) % 64 : i \in v}

\* The lane (0-based index x + 5y) that the rho/pi step writes to lane i:
\* B[y + 5 * ((2x + 3y) % 5)] = rot(state[x + 5y]).
PiSource == [i \in 0..24 |-> CHOOSE index \in 0..24 :
                (index \div 5) + 5 * ((2 * (index % 5) + 3 * (index \div 5)) % 5) = i]

\* One round of the permutation: theta, rho and pi, chi, iota.
KeccakRound(state, round) ==
    LET C(a) == [x \in 1..5 |->
                   Xor(Xor(Xor(Xor(a[x], a[x + 5]), a[x + 10]), a[x + 15]), a[x + 20])] \o <<>>
        D(c) == [x \in 1..5 |->
                   Xor(c[((x - 1 + 4) % 5) + 1], Rotl(c[((x - 1 + 1) % 5) + 1], 1))] \o <<>>
        theta(a, d) == [i \in 1..25 |-> Xor(a[i], d[((i - 1) % 5) + 1])] \o <<>>
        B(a) == [i \in 1..25 |->
                   Rotl(a[PiSource[i - 1] + 1],
                        KECCAK_RHO_OFFSETS[PiSource[i - 1] + 1])] \o <<>>
        chi(b) == [i \in 1..25 |->
                     LET x == (i - 1) % 5
                         y == (i - 1) \div 5
                     IN Xor(b[x + 5 * y + 1],
                            b[((x + 2) % 5) + 5 * y + 1] \ b[((x + 1) % 5) + 5 * y + 1])] \o <<>>
        iota(a) == [a EXCEPT ![1] = Xor(a[1], KECCAK_RC[round + 1])]
    IN iota(chi(B(theta(state, D(C(state))))))

\* for (round = 0; round < 24; ++round), each round evaluated before the next
RECURSIVE KeccakRounds(_, _)
KeccakRounds(state, round) ==
    IF round = 24 THEN state
    ELSE LET rest(nx) == IF Len(nx) = 25 THEN KeccakRounds(nx, round + 1) ELSE <<>>
         IN rest(KeccakRound(state, round))

\* void keccak_f1600(uint64_t state[25])
keccak_f1600(state) == KeccakRounds(state, 0)

(***************************************************************************)
(* Sponge helpers                                                          *)
(***************************************************************************)

\* the one bits of a byte
BitsOfByte(v) == {b \in 0..7 : (v \div (2 ^ b)) % 2 = 1}

\* (state[word_index] >> (byte_in_word * 8)) & 0xFF for state byte index idx
StateByte(state, idx) ==
    LET lane == state[(idx \div 8) + 1]
        sh == 8 * (idx % 8)
        bit(b) == IF (sh + b) \in lane THEN 2 ^ b ELSE 0
    IN bit(0) + bit(1) + bit(2) + bit(3) + bit(4) + bit(5) + bit(6) + bit(7)

\* state[word_index] ^= data[i] << (byte_in_word * 8) for the bytes
\* data[from + 1 .. from + chunk], written at state bytes offset .. offset + chunk - 1
XorIntoState(state, offset, data, from, chunk) ==
    [w \in 1..25 |->
        LET lo == IF 8 * (w - 1) > offset THEN 8 * (w - 1) ELSE offset
            hi == Min(8 * (w - 1) + 7, offset + chunk - 1)
        IN IF lo > hi THEN state[w]
           ELSE Xor(state[w],
                    UNION {{8 * (idx % 8) + b : b \in BitsOfByte(data[from + idx - offset + 1])}
                           : idx \in lo..hi})] \o <<>>

RECURSIVE AbsorbLoop(_, _, _, _, _)
AbsorbLoop(state, rate_bytes, data, done, offset) ==
    IF done = Len(data) THEN [state |-> state, offset |-> offset]
    ELSE LET chunk == Min(Len(data) - done, rate_bytes - offset)
             full == (offset + chunk = rate_bytes)
             permuted(xored) == IF full THEN keccak_f1600(xored) ELSE xored
             rest(next) ==
                 IF Len(next) = 25
                 THEN AbsorbLoop(next, rate_bytes, data, done + chunk,
                                 IF full THEN 0 ELSE offset + chunk)
                 ELSE [state |-> next, offset |-> offset]
         IN rest(permuted(XorIntoState(state, offset, data, done, chunk)))

\* absorb_bytes(state, rate_bytes, data, len, offset): the new state and offset
absorb_bytes(state, rate_bytes, data, offset) ==
    AbsorbLoop(state, rate_bytes, data, 0, offset)

RECURSIVE SqueezeLoop(_, _, _, _, _)
SqueezeLoop(state, rate_bytes, len, offset, out) ==
    IF len = 0 THEN [state |-> state, offset |-> offset, out |-> out]
    ELSE LET chunk == Min(len, rate_bytes - offset)
             full == (offset + chunk = rate_bytes)
             rest(bytes, next) ==
                 IF Len(bytes) = chunk /\ Len(next) = 25
                 THEN SqueezeLoop(next, rate_bytes, len - chunk,
                                  IF full THEN 0 ELSE offset + chunk, out \o bytes)
                 ELSE [state |-> next, offset |-> offset, out |-> out]
         IN rest([i \in 1..chunk |-> StateByte(state, offset + i - 1)] \o <<>>,
                 IF full THEN keccak_f1600(state) ELSE state)

\* A squeeze that reads from the start of the rate block on every call.
squeeze_bytes_FromBlockStart(state, rate_bytes, len, offset) ==
    SqueezeLoop(state, rate_bytes, len, 0, <<>>)

\* squeeze_bytes(state, rate_bytes, out, len, offset): the new state and offset
\* and the len bytes written to out
squeeze_bytes(state, rate_bytes, len, offset) ==
    SqueezeLoop(state, rate_bytes, len, offset, <<>>)

ZeroState == [i \in 1..25 |-> {}] \o <<>>

\* state_bytes[i] = 0 for the state bytes from .. to - 1
ClearStateBytes(state, from, to) ==
    [w \in 1..25 |->
        state[w] \ {8 * (idx % 8) + b : idx \in {j \in from..(to - 1) : j \div 8 = w - 1},
                                         b \in 0..7}] \o <<>>

\* The SHAKE padding as the code applies it: 0x1F into the byte at offset, the
\* rate bytes after it set to zero, 0x80 into the last rate byte.
PaddedState(state, rate_bytes, offset) ==
    XorIntoState(ClearStateBytes(XorIntoState(state, offset, <<31>>, 0, 1),
                                 offset + 1, rate_bytes),
                 rate_bytes - 1, <<128>>, 0, 1)

\* the padding and the permutation that follows it
PadAndPermute(state, rate_bytes, offset) ==
    LET permuted(last) == IF Len(last) = 25 THEN keccak_f1600(last) ELSE <<>>
    IN permuted(PaddedState(state, rate_bytes, offset))

\* std::vector<uint8_t> shake256(input, output_len)
shake256(input, output_len) ==
    LET padded(absorbed) == PadAndPermute(absorbed.state, 136, absorbed.offset)
    IN squeeze_bytes(padded(IF Len(input) > 0 THEN absorb_bytes(ZeroState, 136, input, 0)
                            ELSE [state |-> ZeroState, offset |-> 0]),
                     136, output_len, 0).out

(***************************************************************************)
(* SHAKE128Sampler and SHAKE256Sampler: the two classes have the same code *)
(* and differ in rate_bytes_ (168 and 136).                                *)
(***************************************************************************)

SHAKE128_RATE == 168
SHAKE256_RATE == 136

\* the constructor: rate_bytes_ set, then reset()
SamplerNew(rate_bytes) == [rate_bytes_ |-> rate_bytes, state_ |-> ZeroState, offset_ |-> 0]

SamplerReset(s) == [s EXCEPT !.state_ = ZeroState, !.offset_ = 0]

SamplerAbsorb(s, data) ==
    LET absorbed(r) == [s EXCEPT !.state_ = r.state, !.offset_ = r.offset]
    IN absorbed(absorb_bytes(s.state_, s.rate_bytes_, data, s.offset_))

SamplerPadAndAbsorb(s) ==
    [s EXCEPT !.state_ = PadAndPermute(s.state_, s.rate_bytes_, s.offset_), !.offset_ = 0]

SamplerInit(s, seed) ==
    LET absorbed(fresh) == IF Len(seed) > 0 THEN SamplerAbsorb(fresh, seed) ELSE fresh
    IN SamplerPadAndAbsorb(absorbed(SamplerReset(s)))

\* squeeze(out, len): the sampler afterwards and the bytes written
SamplerSqueeze(s, len) ==
    LET squeezed(r) ==
            [sampler |-> [s EXCEPT !.state_ = r.state, !.offset_ = r.offset], out |-> r.out]
    IN squeezed(squeeze_bytes(s.state_, s.rate_bytes_, len, s.offset_))

(***************************************************************************)
(* A sampler driven by a caller: init, squeeze in chunks, absorb.          *)
(***************************************************************************)

MaxSqueezeCalls == 3
MaxLateAbsorbs == 1

Bytes(n, v) == [i \in 1..n |-> v]

XofSeeds == {<<>>, <<1, 2, 3>>, Bytes(32, 0)}
SqueezeLens == {1, 100, 136}
AbsorbData == {<<165>>}

XofInitial(rate_bytes) ==
    [obj |-> SamplerNew(rate_bytes), seed |-> <<>>, finalized |-> FALSE, out |-> <<>>,
     squeezes |-> 0, crossed |-> FALSE, late |-> 0, threw |-> FALSE]

\* sampler.init(seed, seed_len), called once on the constructed sampler
XofInit ==
    /\ ~xof.finalized
    /\ \E seed \in XofSeeds :
        xof' = [XofInitial(xof.obj.rate_bytes_) EXCEPT
                    !.obj = SamplerInit(xof.obj, seed), !.seed = seed, !.finalized = TRUE]
    /\ UNCHANGED <<ntt, dsa, rej, col, cose, par, chk, ct, thr, ari, smp, pad>>

\* sampler.squeeze(out, len)
XofSqueeze ==
    /\ xof.finalized
    /\ xof.squeezes < MaxSqueezeCalls
    /\ \E len \in SqueezeLens :
          LET squeezed(r) ==
                  [xof EXCEPT
                      !.obj = r.sampler,
                      !.out = xof.out \o r.out,
                      !.squeezes = xof.squeezes + 1,
                      !.crossed = xof.crossed \/
                                  (xof.obj.offset_ > 0 /\ xof.obj.offset_ + len > xof.obj.rate_bytes_),
                      !.threw = FALSE]
          IN xof' = squeezed(SamplerSqueeze(xof.obj, len))
    /\ UNCHANGED <<ntt, dsa, rej, col, cose, par, chk, ct, thr, ari, smp, pad>>

\* sampler.absorb(data, len) on a sampler that init has finalized
XofAbsorb ==
    /\ xof.finalized
    /\ xof.late < MaxLateAbsorbs
    /\ \E data \in AbsorbData :
          xof' = [xof EXCEPT !.obj = SamplerAbsorb(xof.obj, data),
                            !.late = xof.late + 1,
                            !.threw = FALSE]
    /\ UNCHANGED <<ntt, dsa, rej, col, cose, par, chk, ct, thr, ari, smp, pad>>

InitXof ==
    /\ \E rate_bytes \in {SHAKE128_RATE, SHAKE256_RATE} : xof = XofInitial(rate_bytes)
    /\ ntt = Idle /\ dsa = Idle /\ rej = Idle /\ col = Idle /\ cose = Idle /\ par = Idle /\ chk = Idle /\ ct = Idle /\ thr = Idle /\ ari = Idle /\ smp = Idle /\ pad = Idle

NextXof == XofInit \/ XofSqueeze \/ XofAbsorb

SpecXof == InitXof /\ [][NextXof]_vars

\* One squeeze call of length len on a sampler initialised with seed.
SingleSqueeze(rate_bytes, seed, len) ==
    SamplerSqueeze(SamplerInit(SamplerNew(rate_bytes), seed), len).out

\* C8: the bytes returned by any sequence of squeeze calls on a sampler
\* initialised with a seed, concatenated, are the bytes that a single squeeze
\* call of the same total length returns for that seed.
C8_ChunkedSqueezeIsSingleSqueeze ==
    (xof.finalized /\ xof.late = 0) =>
        xof.out = SingleSqueeze(xof.obj.rate_bytes_, xof.seed, Len(xof.out))

\* Several squeeze calls, one of which started inside a rate block and ended
\* in a later one.
C8_Witness ==
    /\ xof.finalized /\ xof.late = 0
    /\ xof.squeezes >= 2 /\ xof.crossed
    /\ Len(xof.out) > xof.obj.rate_bytes_

\* C9: an absorb call on a finalized sampler fails and leaves the sponge
\* (state and offset) as it was.
C9_AbsorbAfterFinalizeFails ==
    [][(xof.finalized /\ xof'.late = xof.late + 1) =>
          (xof'.threw /\ xof'.obj = xof.obj)]_vars

(***************************************************************************)
(* ScalarNTTEngine (ntt_scalar.cpp), constructed with q = 8380417 and      *)
(* n = 256, the only arguments its constructor accepts.                    *)
(*                                                                         *)
(* Representation.  An int64_t is the sequence of its eight base-256       *)
(* digits in two's complement, least significant first.  An int32_t is an  *)
(* integer.  A uint32_t x is held as the int32_t that has the same 32 bits *)
(* (x below 2^31, x - 2^32 from 2^31 on), so the conversions between       *)
(* int32_t and uint32_t are the identity, as they are in the code.         *)
(***************************************************************************)

q_ == 8380417
n_ == 256
log_n_ == 8

\* (int64_t)x for an int32_t x: sign extension
I64(x) ==
    [d \in 1..8 |-> IF d <= 4 THEN (x \div (256 ^ (d - 1))) % 256
                    ELSE IF x < 0 THEN 255 ELSE 0] \o <<>>

\* (int64_t)x for a uint32_t x: zero extension
U64(x) ==
    [d \in 1..8 |-> IF d <= 4 THEN (x \div (256 ^ (d - 1))) % 256 ELSE 0] \o <<>>

\* The eight digits of the number whose digit columns are cols, carries
\* (or borrows) moved up, the carry out of the top digit dropped.
RECURSIVE Carry(_, _, _)
Carry(cols, carry, done) ==
    IF Len(done) = 8 THEN done
    ELSE LET s == cols[Len(done) + 1] + carry
         IN Carry(cols, s \div 256, Append(done, s % 256))

RECURSIVE ColumnSum(_, _, _, _)
ColumnSum(a, b, k, i) ==
    IF i > k THEN 0 ELSE a[i] * b[k + 1 - i] + ColumnSum(a, b, k, i + 1)

\* a * b on int64_t, the low 64 bits of the product
Mul64(a, b) == Carry([k \in 1..8 |-> ColumnSum(a, b, k, 1)] \o <<>>, 0, <<>>)

\* a - b on int64_t
Sub64(a, b) == Carry([d \in 1..8 |-> a[d] - b[d]] \o <<>>, 0, <<>>)

\* t & 0xFFFFFFFF
And32(t) == [d \in 1..8 |-> IF d <= 4 THEN t[d] ELSE 0] \o <<>>

\* result >> 32 on int64_t (the shift keeps the sign)
Sar32(r) == [d \in 1..8 |-> IF d <= 4 THEN r[d + 4]
                            ELSE IF r[8] >= 128 THEN 255 ELSE 0] \o <<>>

\* (int32_t)result
ToInt32(r) ==
    r[1] + 256 * r[2] + 65536 * r[3]
         + 16777216 * (IF r[4] >= 128 THEN r[4] - 256 ELSE r[4])

\* a + b on uint32_t
U32Add(a, b) ==
    LET lo == (a % 65536) + (b % 65536)
        hi == (a \div 65536) + (b \div 65536) + (lo \div 65536)
    IN (((hi + 32768) % 65536) - 32768) * 65536 + (lo % 65536)

\* a - b on uint32_t
U32Sub(a, b) ==
    LET lo == (a % 65536) - (b % 65536)
        hi == (a \div 65536) - (b \div 65536) + (lo \div 65536)
    IN (((hi + 32768) % 65536) - 32768) * 65536 + (lo % 65536)

\* 2^e mod m
RECURSIVE Pow2Mod(_, _)
Pow2Mod(e, m) == IF e = 0 THEN 1 % m ELSE (2 * Pow2Mod(e - 1, m)) % m

\* a % m on uint32_t
U32Mod(a, m) == IF a >= 0 THEN a % m ELSE ((a % m) + Pow2Mod(32, m)) % m

\* a < b on uint32_t, for b below 2^31
U32Less(a, b) == a >= 0 /\ a < b

\* const int32_t zetas_ml_dsa[128]
zetas_ml_dsa == <<
    0, 25847, -2608894, -518909, 237124, -777960, -876248, 466468,
    1826347, 2353451, -359251, -2091905, 3119733, -2884855, 3111497, 2680103,
    2725464, 1024112, -1079900, 3585928, -1497254, 4189091, -1882636, 2036599,
    1107237, 727831, -214476, 18292, -167782, -240320, -474467, -378833,
    -1575429, -1194982, -262805, -857374, -236959, -876248, -109702, -494783,
    -1846644, -642346, -1085204, -1060846, -466468, -200074, -120614, -181804,
    -167782, -1107237, -1882636, -25847, -2081905, -1826347, -2091905, -181804,
    -777960, -2091905, -237124, -876248, -3111497, -262805, -2091905, -2725464,
    -109702, -3119733, -236959, -3119733, -181804, -3119733, -3111497, -2725464,
    -2091905, -2884855, -1497254, -3119733, -3111497, -2884855, -2725464, -2091905,
    -2884855, -3119733, -1497254, -2091905, -3119733, -2725464, -2884855, -3119733,
    -2725464, -2091905, -2884855, -3119733, -3111497, -2725464, -2091905, -2884855,
    -3119733, -1497254, -2091905, -3119733, -3111497, -2725464, -2884855, -3119733,
    -2725464, -2091905, -2884855, -3119733, -3111497, -2725464, -2091905, -2884855,
    -3119733, -1497254, -2091905, -3119733, -3111497, -2725464, -2884855, -3119733,
    -2725464, -2091905, -2884855, -3119733, -3111497, -2725464, -2091905, -2884855 >>

\* int32_t ScalarNTTEngine::montgomery_reduce(int64_t val) const
montgomery_reduce(val) ==
    LET qinv == I64(587289889)
        t == And32(Mul64(val, qinv))
        result == Sar32(Sub64(val, Mul64(t, I64(q_))))
    IN ToInt32(result)

RECURSIVE ModInverseLoop(_, _, _, _)
ModInverseLoop(a, m, x0, x1) ==
    IF a > 1
    THEN LET q == a \div m
         IN ModInverseLoop(m, a % m, x1 - q * x0, x0)
    ELSE x1

\* uint32_t mod_inverse(uint32_t a, uint32_t m)
mod_inverse(a, m) ==
    IF m = 1 THEN 0
    ELSE LET x1 == ModInverseLoop(a, m, 0, 1)
         IN IF x1 < 0 THEN x1 + m ELSE x1

\* precompute_zetas: zetas_[i] = zetas_ml_dsa[i - 1] for i in 1..127, the
\* other entries of the n_ stay zero
zetas_ ==
    [m \in 1..n_ |-> IF m - 1 >= 1 /\ m - 1 < 128 THEN zetas_ml_dsa[m - 1] ELSE 0] \o <<>>

\* precompute_zetas: zetas_inv_[i] = zetas_[128 - i] for i in 1..127
zetas_inv_ ==
    [m \in 1..n_ |-> IF m - 1 >= 1 /\ m - 1 < 128 THEN zetas_[130 - m] ELSE 0] \o <<>>

\* precompute_zetas: n_inv_ = mod_inverse(n_, q_)
n_inv_ == mod_inverse(n_, q_)

\* precompute_bitrev: bitrev_[i] has the log_n_ bits of i in reverse order
bitrev_ ==
    [m \in 1..n_ |->
        LET bit(j) == (((m - 1) \div (2 ^ j)) % 2) * (2 ^ (log_n_ - 1 - j))
        IN bit(0) + bit(1) + bit(2) + bit(3) + bit(4) + bit(5) + bit(6) + bit(7)] \o <<>>

\* bit_reverse: poly[i] and poly[bitrev_[i]] swapped once for every pair
bit_reverse(poly) == [m \in 1..n_ |-> poly[bitrev_[m] + 1]] \o <<>>

\* The blocks of one level of ntt_forward, in the order of start: whether the
\* guard k < zetas_.size() let the block run, and the zeta = zetas_[k++] it
\* took.  k moves only inside the guard, so a block that fails the guard
\* leaves k as it is and every later block of the level fails it too: block
\* number b (from 0) runs exactly if k + b passes the guard.  The k of the
\* result is the value the level leaves behind.
ForwardBlocks(len, k) ==
    LET count == n_ \div len
        run(b) == U32Less(U32Add(k, b), Len(zetas_))
        ran == Cardinality({b \in 0..(count - 1) : run(b)})
    IN [k |-> U32Add(k, ran),
        blocks |-> [b \in 1..count |->
                      [run |-> run(b - 1),
                       zeta |-> IF run(b - 1) THEN zetas_[k + b] ELSE 0]] \o <<>>]

\* The same for ntt_inverse: guard k < zetas_inv_.size(), zeta = zetas_inv_[k--].
\* k is unsigned: k-- at 0 leaves 2^32 - 1, which fails the guard.
InverseBlocks(len, k) ==
    LET count == n_ \div len
        run(b) == U32Less(U32Sub(k, b), Len(zetas_inv_))
        ran == Cardinality({b \in 0..(count - 1) : run(b)})
    IN [k |-> U32Sub(k, ran),
        blocks |-> [b \in 1..count |->
                      [run |-> run(b - 1),
                       zeta |-> IF run(b - 1) THEN zetas_inv_[k - b + 2] ELSE 0]] \o <<>>]

\* The butterflies of all blocks of one level (the loops over start and j of
\* ntt_forward and ntt_inverse, which have the same body).  The blocks of a
\* level are disjoint, so each coefficient is written at most once:
\*   t_mod = (uint32_t)montgomery_reduce((int64_t)v * zeta)
\*   poly[j] = (u + t_mod) % q_;  poly[j + len/2] = (u + q_ - t_mod) % q_
ButterflyLevel(poly, len, blocks) ==
    LET half == len \div 2
        t_mod == [m \in 1..(n_ \div 2) |->
                    LET b == (m - 1) \div half
                        j == b * len + ((m - 1) % half)
                    IN IF blocks[b + 1].run
                       THEN montgomery_reduce(Mul64(U64(poly[j + half + 1]),
                                                    I64(blocks[b + 1].zeta)))
                       ELSE 0] \o <<>>
    IN [i \in 1..n_ |->
          LET b == (i - 1) \div len
              pos == (i - 1) % len
              m == b * half + (pos % half) + 1
          IN IF ~blocks[b + 1].run THEN poly[i]
             ELSE IF pos < half
                  THEN U32Mod(U32Add(poly[i], t_mod[m]), q_)
                  ELSE U32Mod(U32Sub(U32Add(poly[i - half], q_), t_mod[m]), q_)] \o <<>>

\* for (; len <= n_; len <<= 1)
RECURSIVE ForwardLevels(_, _, _)
ForwardLevels(poly, len, k) ==
    IF len > n_ THEN poly
    ELSE LET level == ForwardBlocks(len, k)
             nx == ButterflyLevel(poly, len, level.blocks)
         IN IF Len(nx) = n_ THEN ForwardLevels(nx, 2 * len, level.k) ELSE <<>>

\* void ScalarNTTEngine::ntt_forward(uint32_t* poly) const
ntt_forward(poly) == ForwardLevels(bit_reverse(poly), 2, 1)

\* for (; len >= 2; len >>= 1)
RECURSIVE InverseLevels(_, _, _)
InverseLevels(poly, len, k) ==
    IF len < 2 THEN poly
    ELSE LET level == InverseBlocks(len, k)
             nx == ButterflyLevel(poly, len, level.blocks)
         IN IF Len(nx) = n_ THEN InverseLevels(nx, len \div 2, level.k) ELSE <<>>

\* void ScalarNTTEngine::ntt_inverse(uint32_t* poly) const
ntt_inverse(poly) ==
    LET swapped == bit_reverse(InverseLevels(poly, n_ \div 2, (n_ \div 2) - 1))
    IN [i \in 1..n_ |->
          montgomery_reduce(Mul64(U64(swapped[i]), U64(n_inv_)))] \o <<>>

(***************************************************************************)
(* A caller that transforms a polynomial with ntt_forward and transforms   *)
(* the result back with ntt_inverse.                                       *)
(***************************************************************************)

\* the polynomial with coefficient c at index i and zero elsewhere
Monomial(i, c) == [m \in 1..n_ |-> IF m = i + 1 THEN c ELSE 0] \o <<>>

\* the polynomial with all coefficients c
Constant(c) == [m \in 1..n_ |-> c] \o <<>>

NttPositions == {0, 1, 2, 3, 127, 128, 254, 255}
NttValues == {1, 2, (q_ - 1) \div 2, q_ - 1}

\* polynomials of n_ coefficients in [0, q_)
NttInputs ==
    {Constant(0), Constant(1), Constant(q_ - 1)}
        \cup {Monomial(i, c) : i \in NttPositions, c \in NttValues}

\* engine.ntt_forward(poly)
NttForward ==
    /\ ntt.phase = "input"
    /\ ntt' = [ntt EXCEPT !.phase = "forward", !.poly = ntt_forward(ntt.poly)]
    /\ UNCHANGED <<xof, dsa, rej, col, cose, par, chk, ct, thr, ari, smp, pad>>

\* engine.ntt_inverse(poly)
NttInverse ==
    /\ ntt.phase = "forward"
    /\ ntt' = [ntt EXCEPT !.phase = "inverse", !.poly = ntt_inverse(ntt.poly)]
    /\ UNCHANGED <<xof, dsa, rej, col, cose, par, chk, ct, thr, ari, smp, pad>>

InitNtt ==
    /\ \E p \in NttInputs : ntt = [phase |-> "input", input |-> p, poly |-> p]
    /\ xof = Idle /\ dsa = Idle /\ rej = Idle /\ col = Idle /\ cose = Idle /\ par = Idle /\ chk = Idle /\ ct = Idle /\ thr = Idle /\ ari = Idle /\ smp = Idle /\ pad = Idle

NextNtt == NttForward \/ NttInverse

SpecNtt == InitNtt /\ [][NextNtt]_vars

\* C10: a polynomial with coefficients in [0, q) that went through
\* ntt_forward and then ntt_inverse is the polynomial it was.
C10_RoundTripIsIdentity ==
    (ntt.phase = "inverse") => (ntt.poly = ntt.input)

(***************************************************************************)
(* Color encoding of polynomial vectors   (color_integration.cpp)          *)
(*                                                                         *)
(* A coefficient is a uint32_t, held as in the NTT section.  A call that   *)
(* throws returns the record of the exception; a call whose behaviour the  *)
(* language leaves undefined returns the set of what a build can make of   *)
(* it.                                                                     *)
(***************************************************************************)

\* a * b on uint32_t
U32Mul(a, b) == ToInt32(Mul64(U64(a), U64(b)))

\* the four bytes pushed for one coefficient, most significant first
ColorOfCoeff(coeff, modulus) ==
    LET packed(c) == <<(c \div 16777216) % 256, (c \div 65536) % 256,
                       (c \div 256) % 256, c % 256>>
    IN packed(IF modulus # 0 THEN U32Mod(coeff, modulus) ELSE coeff)

\* the coefficient read with the four bytes taken least significant first
CoeffOfColor_LittleEndian(color_data, idx, modulus) ==
    LET word(b0, b1, b2, b3) ==
            (IF b3 >= 128 THEN b3 - 256 ELSE b3) * 16777216 + b2 * 65536 + b1 * 256 + b0
        reduced(coeff) == IF modulus # 0 THEN U32Mod(coeff, modulus) ELSE coeff
    IN reduced(word(color_data[idx + 1], color_data[idx + 2],
                    color_data[idx + 3], color_data[idx + 4]))

\* the coefficient read from color_data[idx] .. color_data[idx + 3]
CoeffOfColor(color_data, idx, modulus) ==
    LET word(b0, b1, b2, b3) ==
            (IF b0 >= 128 THEN b0 - 256 ELSE b0) * 16777216 + b1 * 65536 + b2 * 256 + b3
        reduced(coeff) == IF modulus # 0 THEN U32Mod(coeff, modulus) ELSE coeff
    IN reduced(word(color_data[idx + 1], color_data[idx + 2],
                    color_data[idx + 3], color_data[idx + 4]))

\* byte number m of the output is byte (m - 1) % 4 of coefficient (m - 1) / 4
encode_polynomial_as_colors(poly, modulus) ==
    [m \in 1..(4 * Len(poly)) |->
        ColorOfCoeff(poly[((m - 1) \div 4) + 1], modulus)[((m - 1) % 4) + 1]] \o <<>>

decode_colors_to_polynomial(color_data, modulus) ==
    IF Len(color_data) % 4 # 0 THEN [kind |-> "invalid_argument"]
    ELSE [kind |-> "ok",
          value |-> [c \in 1..(Len(color_data) \div 4) |->
                        CoeffOfColor(color_data, 4 * (c - 1), modulus)] \o <<>>]

RECURSIVE encode_polynomial_vector_as_colors(_, _)
encode_polynomial_vector_as_colors(poly_vector, modulus) ==
    IF poly_vector = <<>> THEN <<>>
    ELSE encode_polynomial_as_colors(Head(poly_vector), modulus)
         \o encode_polynomial_vector_as_colors(Tail(poly_vector), modulus)

\* color_data.size() != k * n * 4, the product computed on uint32_t
VectorSizeMatches(size, k, n) == size = U32Mul(U32Mul(k, n), 4)

\* The outcomes of decode_colors_to_polynomial_vector.  When the size check
\* lets through data shorter than the k * n coefficients the loop reads,
\* the allocation of the k * n coefficients fails or the loop reads past
\* the end of color_data, which is undefined.
decode_colors_to_polynomial_vector(color_data, k, n, modulus) ==
    IF ~VectorSizeMatches(Len(color_data), k, n)
    THEN {[kind |-> "invalid_argument"]}
    ELSE IF k * n > Len(color_data) \div 4
    THEN {[kind |-> "bad_alloc"], [kind |-> "undefined"]}
    ELSE {[kind |-> "ok",
           value |-> [i \in 1..k |-> [j \in 1..n |->
                        CoeffOfColor(color_data, 4 * ((i - 1) * n + (j - 1)), modulus)] \o <<>>] \o <<>>]}


(***************************************************************************)
(* ML-DSA as spec.md sections 3 and 4 state it.  The repository's key      *)
(* generation, signing and verification sources are not among the files    *)
(* modelled above; their algorithms are taken from the specification and   *)
(* run over the sponge of utils.cpp.  A polynomial is a sequence of n_     *)
(* coefficients in 0 .. q_ - 1, a negative value x held as q_ + x.         *)
(***************************************************************************)

\* d, the number of bits dropped from t (section 3)
d_ == 13

\* the row of the parameter table of section 3 for a set
ParamSet(set) ==
    CASE set = 44 -> [k |-> 4, l |-> 4, eta |-> 2, tau |-> 39, beta |-> 78,
                      gamma1 |-> 2 ^ 17, gamma2 |-> (q_ - 1) \div 88,
                      omega |-> 80, lambda |-> 128]
      [] set = 65 -> [k |-> 6, l |-> 5, eta |-> 4, tau |-> 49, beta |-> 196,
                      gamma1 |-> 2 ^ 19, gamma2 |-> (q_ - 1) \div 32,
                      omega |-> 55, lambda |-> 192]
      [] set = 87 -> [k |-> 8, l |-> 7, eta |-> 2, tau |-> 60, beta |-> 120,
                      gamma1 |-> 2 ^ 19, gamma2 |-> (q_ - 1) \div 32,
                      omega |-> 75, lambda |-> 256]

\* a * b mod q for a, b in 0 .. q - 1, the product taken byte by byte of b
MulMod(a, b) ==
    LET p2 == (a * (b \div 65536)) % q_
        p1 == (a * ((b \div 256) % 256)) % q_
        p0 == (a * (b % 256)) % q_
        hi == (((p2 * 256) % q_) + p1) % q_
    IN (((hi * 256) % q_) + p0) % q_

\* zeta ^ e mod q for the primitive 512-th root of unity zeta = 1753
RECURSIVE ZetaPower(_)
ZetaPower(e) ==
    IF e = 0 THEN 1
    ELSE LET h == ZetaPower(e \div 2)
             s == MulMod(h, h)
         IN IF e % 2 = 1 THEN MulMod(s, 1753) ELSE s

\* the twiddle table: the powers of zeta in bit-reversed order
Zetas == [m \in 1..n_ |-> ZetaPower(bitrev_[m])] \o <<>>

\* One level of the forward transform (Cooley-Tukey): blocks of 2 * len
\* coefficients, the butterfly t = b * zeta; b = a - t; a = a + t.
NttLevel(w, len) ==
    LET t == [m \in 1..(n_ \div 2) |->
                LET blk == (m - 1) \div len
                    j == blk * 2 * len + ((m - 1) % len)
                IN MulMod(Zetas[(n_ \div (2 * len)) + blk + 1], w[j + len + 1])] \o <<>>
    IN [i \in 1..n_ |->
          LET blk == (i - 1) \div (2 * len)
              pos == (i - 1) % (2 * len)
              m == blk * len + (pos % len) + 1
          IN IF pos < len THEN (w[i] + t[m]) % q_
             ELSE (w[i - len] + q_ - t[m]) % q_] \o <<>>

RECURSIVE NttLevels(_, _)
NttLevels(w, len) ==
    IF len < 1 THEN w
    ELSE LET nx == NttLevel(w, len)
         IN IF Len(nx) = n_ THEN NttLevels(nx, len \div 2) ELSE <<>>

\* the forward transform of a polynomial
NTT(w) == NttLevels(w, n_ \div 2)

\* One level of the inverse transform (Gentleman-Sande):
\* a = a + b; b = (a - b) * (-zeta).
InvNttLevel(w, len) ==
    [i \in 1..n_ |->
        LET blk == (i - 1) \div (2 * len)
            pos == (i - 1) % (2 * len)
            zeta == Zetas[(n_ \div len) - 1 - blk + 1]
        IN IF pos < len THEN (w[i] + w[i + len]) % q_
           ELSE MulMod((w[i - len] + q_ - w[i]) % q_, (q_ - zeta) % q_)] \o <<>>

RECURSIVE InvNttLevels(_, _)
InvNttLevels(w, len) ==
    IF len >= n_ THEN w
    ELSE LET nx == InvNttLevel(w, len)
         IN IF Len(nx) = n_ THEN InvNttLevels(nx, 2 * len) ELSE <<>>

\* the inverse transform, with the final multiplication by n^-1 mod q
InverseNTT(w) ==
    LET r == InvNttLevels(w, 1)
    IN [i \in 1..n_ |-> MulMod(r[i], n_inv_)] \o <<>>

\* coefficientwise operations on polynomials
PolyAdd(a, b) == [i \in 1..n_ |-> (a[i] + b[i]) % q_] \o <<>>
PolySub(a, b) == [i \in 1..n_ |-> (a[i] + q_ - b[i]) % q_] \o <<>>
PolyMul(a, b) == [i \in 1..n_ |-> MulMod(a[i], b[i])] \o <<>>

\* row i of A * v for the matrix A and the vector v, both in NTT form
RECURSIVE RowTimesVec(_, _, _)
RowTimesVec(row, v, j) ==
    IF j = 0 THEN [i \in 1..n_ |-> 0] \o <<>>
    ELSE LET acc == RowTimesVec(row, v, j - 1)
             nx == PolyAdd(acc, PolyMul(row[j], v[j]))
         IN IF Len(nx) = n_ THEN nx ELSE <<>>

MatVec(A, v) == [i \in 1..Len(A) |-> RowTimesVec(A[i], v, Len(v))] \o <<>>

\* the same operation on every polynomial of a vector
NttVec(v) == [i \in 1..Len(v) |-> NTT(v[i])] \o <<>>
InvNttVec(v) == [i \in 1..Len(v) |-> InverseNTT(v[i])] \o <<>>

\* the centered representative of x mod q
Centered(x) == IF x > (q_ - 1) \div 2 THEN x - q_ ELSE x

\* the largest absolute centered coefficient of a vector of polynomials
NormInf(v) ==
    LET abs(x) == IF x < 0 THEN -x ELSE x
        m == {abs(Centered(v[i][j])) : i \in 1..Len(v), j \in 1..n_}
    IN CHOOSE x \in m : \A y \in m : y <= x

\* power2round(r, d): r = r1 * 2^d + r0 with r0 in (-2^(d-1), 2^(d-1)]
Power2Round(r) ==
    LET m == r % (2 ^ d_)
        r0 == IF m > 2 ^ (d_ - 1) THEN m - 2 ^ d_ ELSE m
    IN [r1 |-> (r - r0) \div (2 ^ d_), r0 |-> r0]

\* decompose(r, alpha): r = r1 * alpha + r0 with r0 in (-alpha/2, alpha/2],
\* and r1 = 0 where the high part would wrap
Decompose(r, alpha) ==
    LET m == r % alpha
        r0 == IF m > alpha \div 2 THEN m - alpha ELSE m
    IN IF r - r0 = q_ - 1 THEN [r1 |-> 0, r0 |-> r0 - 1]
       ELSE [r1 |-> (r - r0) \div alpha, r0 |-> r0]

HighBits(r, alpha) == Decompose(r, alpha).r1
LowBits(r, alpha) == Decompose(r, alpha).r0

\* makeHint(z, r, alpha)
MakeHint(z, r, alpha) ==
    IF HighBits(r, alpha) # HighBits((r + z) % q_, alpha) THEN 1 ELSE 0

\* useHint(h, r, alpha)
UseHint_NoHint(h, r, alpha) == HighBits(r, alpha)
UseHint(h, r, alpha) ==
    LET m == (q_ - 1) \div alpha
        dec == Decompose(r, alpha)
    IN IF h = 0 THEN dec.r1
       ELSE IF dec.r0 > 0 THEN (dec.r1 + 1) % m ELSE (dec.r1 + m - 1) % m

\* bits per coefficient of the encoders of section 4.5
EtaBits(eta) == IF eta = 2 THEN 3 ELSE 4
ZBits(gamma1) == IF gamma1 = 2 ^ 17 THEN 18 ELSE 20
W1Bits(gamma2) == IF gamma2 = (q_ - 1) \div 88 THEN 6 ELSE 4

\* the values of vals, bits bits each, little-endian, as bytes
BitPack(vals, bits) ==
    [m \in 1..((Len(vals) * bits) \div 8) |->
        LET bit(u) == LET t == 8 * (m - 1) + u
                      IN ((vals[(t \div bits) + 1] \div (2 ^ (t % bits))) % 2) * (2 ^ u)
        IN bit(0) + bit(1) + bit(2) + bit(3) + bit(4) + bit(5) + bit(6) + bit(7)] \o <<>>

\* count values of bits bits each (bits <= 20) read back from bytes
BitUnpack(bytes, bits, count) ==
    [i \in 1..count |->
        LET t == (i - 1) * bits
            b == t \div 8
            at(x) == IF b + x <= Len(bytes) THEN bytes[b + x] ELSE 0
            word == at(1) + 256 * at(2) + 65536 * at(3) + 16777216 * (at(4) % 128)
        IN (word \div (2 ^ (t % 8))) % (2 ^ bits)] \o <<>>

\* the sequences of segs, all of one length, one after the other
Flatten(segs) ==
    IF Len(segs) = 0 THEN <<>>
    ELSE LET sz == Len(segs[1])
         IN [m \in 1..(Len(segs) * sz) |->
                segs[((m - 1) \div sz) + 1][((m - 1) % sz) + 1]] \o <<>>

\* a polynomial with small centered coefficients x, encoded as bias - x
PackBiased(p, bits, bias) ==
    BitPack([i \in 1..n_ |-> bias - Centered(p[i])] \o <<>>, bits)

UnpackBiased(bytes, bits, bias) ==
    LET v == BitUnpack(bytes, bits, n_)
    IN [i \in 1..n_ |-> (bias + q_ - v[i]) % q_] \o <<>>

\* a vector of polynomials, each encoded by PackBiased
PackVec(v, bits, bias) ==
    Flatten([i \in 1..Len(v) |-> PackBiased(v[i], bits, bias)] \o <<>>)

\* count polynomials read back from bytes, starting after offset bytes
UnpackVec(bytes, offset, count, bits, bias) ==
    [i \in 1..count |->
        UnpackBiased(SubSeq(bytes, offset + 32 * bits * (i - 1) + 1,
                            offset + 32 * bits * i), bits, bias)] \o <<>>

\* the column indices of the nonzero coefficients of rows 1 .. i of a hint
RECURSIVE HintColumns(_, _)
HintColumns(h, i) ==
    IF i = 0 THEN <<>>
    ELSE HintColumns(h, i - 1)
         \o SelectSeq([j \in 1..n_ |-> j - 1], LAMBDA j : h[i][j + 1] = 1)

\* hint encoding: the column indices grouped by row, omega - popcount zero
\* bytes, and the k cumulative row-end offsets
PackHint(h, omega) ==
    LET idx == HintColumns(h, Len(h))
    IN idx \o [m \in 1..(omega - Len(idx)) |-> 0]
           \o [i \in 1..Len(h) |-> Len(HintColumns(h, i))]

\* Hint decoding: row i holds the columns listed between the end of row
\* i - 1 and its own end.  ok is false when a row end lies before the end
\* of the row before it or beyond omega.
UnpackHint(bytes, omega, k) ==
    LET rowEnd(i) == IF i = 0 THEN 0 ELSE bytes[omega + i]
        ok == \A i \in 1..k : rowEnd(i - 1) <= rowEnd(i) /\ rowEnd(i) <= omega
    IN [ok |-> ok,
        h |-> IF ok
              THEN [i \in 1..k |->
                     [j \in 1..n_ |->
                        IF \E p \in (rowEnd(i - 1) + 1)..rowEnd(i) : bytes[p] = j - 1
                        THEN 1 ELSE 0] \o <<>>] \o <<>>
              ELSE <<>>]

\* the number of nonzero coefficients of a hint
Popcount(h) == Len(HintColumns(h, Len(h)))

\* a 16-bit counter, little-endian
LE16(x) == <<x % 256, (x \div 256) % 256>>

\* SampleUniform: 3 bytes of the stream at a time, the top byte masked to
\* 0x7F, values >= q skipped, until n coefficients are accepted
RECURSIVE RejNTT(_, _)
RejNTT(sampler, acc) ==
    IF Len(acc) >= n_ THEN SubSeq(acc, 1, n_)
    ELSE LET cand(out) == [m \in 1..(n_ - Len(acc)) |->
                             out[3 * m - 2] + 256 * out[3 * m - 1]
                             + 65536 * (out[3 * m] % 128)] \o <<>>
             rest(nx, s) == IF Len(nx) >= 0 THEN RejNTT(s, nx) ELSE <<>>
             accept(sq) == rest(acc \o SelectSeq(cand(sq.out), LAMBDA v : v < q_),
                                sq.sampler)
         IN accept(SamplerSqueeze(sampler, 3 * (n_ - Len(acc))))

SampleUniform(rho, j, i) ==
    RejNTT(SamplerInit(SamplerNew(SHAKE128_RATE), rho \o <<j, i>>), <<>>)

\* the k x l matrix A in NTT form, entry (i, j) from SHAKE-128(rho || j || i)
ExpandA(rho, k, l) ==
    [i \in 1..k |-> [j \in 1..l |-> SampleUniform(rho, j - 1, i - 1)] \o <<>>] \o <<>>

\* CBD_eta from SHAKE-256(rho' || nonce): for eta = 2 a byte gives two
\* coefficients, four bits each, for eta = 4 one coefficient
CBD(rhoPrime, nonce, eta) ==
    LET bitOf(v, u) == (v \div (2 ^ u)) % 2
        half(h) == (q_ + bitOf(h, 0) + bitOf(h, 1) - bitOf(h, 2) - bitOf(h, 3)) % q_
        whole(b) == (q_ + bitOf(b, 0) + bitOf(b, 1) + bitOf(b, 2) + bitOf(b, 3)
                        - bitOf(b, 4) - bitOf(b, 5) - bitOf(b, 6) - bitOf(b, 7)) % q_
        poly(bytes) ==
            [i \in 1..n_ |->
                IF eta = 2
                THEN half(IF (i - 1) % 2 = 0 THEN bytes[((i - 1) \div 2) + 1] % 16
                          ELSE bytes[((i - 1) \div 2) + 1] \div 16)
                ELSE whole(bytes[i])] \o <<>>
    IN poly(SamplerSqueeze(SamplerInit(SamplerNew(SHAKE256_RATE), rhoPrime \o LE16(nonce)),
                           IF eta = 2 THEN n_ \div 2 ELSE n_).out)

\* ExpandMask: polynomial r of y from SHAKE-256(rho'' || kappa + r), its
\* coefficients in (-gamma1, gamma1] read in the encoding of z
ExpandMask(rhoPP, kappa, l, gamma1) ==
    [r \in 1..l |->
        UnpackBiased(SamplerSqueeze(SamplerInit(SamplerNew(SHAKE256_RATE),
                                                rhoPP \o LE16(kappa + r - 1)),
                                    32 * ZBits(gamma1)).out,
                     ZBits(gamma1), gamma1)] \o <<>>

\* SampleInBall, the steps for i .. 255.  st holds the polynomial c, the
\* bytes squeezed so far, the number of them consumed and the sampler; the
\* stream is extended 32 bytes at a time when it is used up.
RECURSIVE BallLoop(_, _, _)
BallLoop(st, i, tau) ==
    IF i >= n_ THEN st.c
    ELSE LET hits == {p \in (st.pos + 1)..Len(st.stream) : st.stream[p] <= i}
         IN IF hits = {}
            THEN LET longer(sq) == [st EXCEPT !.stream = st.stream \o sq.out,
                                              !.sampler = sq.sampler]
                     rest(nx) == IF Len(nx.stream) > 0 THEN BallLoop(nx, i, tau) ELSE <<>>
                 IN rest(longer(SamplerSqueeze(st.sampler, 32)))
            ELSE LET p == CHOOSE x \in hits : \A y \in hits : x <= y
                     j == st.stream[p]
                     t == i - (n_ - tau)
                     sign == IF (st.stream[(t \div 8) + 1] \div (2 ^ (t % 8))) % 2 = 0
                             THEN 1 ELSE q_ - 1
                     rest(nx) == IF Len(nx.c) = n_ THEN BallLoop(nx, i + 1, tau) ELSE <<>>
                 IN rest([st EXCEPT !.c = [st.c EXCEPT ![i + 1] = st.c[j + 1],
                                                       ![j + 1] = sign],
                                    !.pos = p])

\* SampleInBall: the 64-bit sign word is read first, then for i from
\* 256 - tau to 255 one byte j at a time until j <= i; c[i] = c[j];
\* c[j] = +1 or -1 by the next sign bit
SampleInBall(seed, tau) ==
    LET start(sq) == [c |-> [i \in 1..n_ |-> 0] \o <<>>, stream |-> sq.out, pos |-> 8,
                      sampler |-> sq.sampler]
    IN BallLoop(start(SamplerSqueeze(SamplerInit(SamplerNew(SHAKE256_RATE), seed), 8)),
                n_ - tau, tau)

\* the serialized sizes of section 6: pk, sk and sig
Sizes(P) ==
    [pk |-> 32 + 320 * P.k,
     sk |-> 128 + 32 * EtaBits(P.eta) * (P.k + P.l) + 416 * P.k,
     sig |-> (P.lambda \div 4) + 32 * ZBits(P.gamma1) * P.l + P.omega + P.k]

\* mu = SHAKE-256(tr || 0x00 || |ctx| || ctx || M, 64), pure mode
MuOf_NoContext(tr, ctx, M) == shake256(tr \o <<0, 0>> \o M, 64)
MuOf(tr, ctx, M) == shake256(tr \o <<0, Len(ctx)>> \o ctx \o M, 64)

\* rho'' = SHAKE-256(K || rnd || mu, 64) (Sign step 4)
RhoPPOf_PerCall(K, rnd, mu) ==
    shake256(K \o (IF dsa.sgCalls = 0 THEN rnd ELSE Bytes(32, 4 * dsa.sgCalls)) \o mu, 64)
RhoPPOf(K, rnd, mu) == shake256(K \o rnd \o mu, 64)

\* c~ = SHAKE-256(mu || pack_w1(w1), lambda / 4)
ChallengeHash(P, mu, w1) ==
    shake256(mu \o Flatten([i \in 1..P.k |-> BitPack(w1[i], W1Bits(P.gamma2))] \o <<>>),
             P.lambda \div 4)

\* the safety rail of the rejection loop (section 4.7, Failure)
MaxKappaIncrements == 1000

Exhausted_OnePastBound(attempts) == attempts > MaxKappaIncrements
Exhausted(attempts) == attempts >= MaxKappaIncrements

\* kappa after an attempt: it advances by exactly l
NextKappa_ByOne(kappa, l) == kappa + 1
NextKappa(kappa, l) == kappa + l

(***************************************************************************)
(* The signature operations as a machine.  dsa holds what a caller and the *)
(* operation in progress hold: the keys, the inputs of the call, the       *)
(* values a step leaves for the next one and the result.                   *)
(***************************************************************************)
DsaSets == {44, 65, 87}

\* the message "abc" and the context "app" of the scenarios of section 8
Abc == <<97, 98, 99>>
App == <<97, 112, 112>>

\* the seed of the Deterministic KAT scenario of section 8
Xi == Bytes(32, 0)

\* The inputs of sign.  For every set: the empty message and a context of
\* 256 bytes, which sign refuses.  For set 44 the KAT scenario and the same
\* with the context "app"; for the sets 65 and 87 the randomness FF^32, with
\* the context "app" and with the empty context.
SignInputs(set) ==
    {[M |-> <<>>, ctx |-> <<>>, rnd |-> Bytes(32, 0)],
     [M |-> <<>>, ctx |-> App, rnd |-> Bytes(32, 0)],
     [M |-> Abc, ctx |-> Bytes(256, 0), rnd |-> Bytes(32, 0)],
     [M |-> Abc, ctx |-> Bytes(256, 0), rnd |-> Bytes(32, 255)]}
    \cup CASE set = 44 -> {[M |-> Abc, ctx |-> <<>>, rnd |-> Bytes(32, 0)],
                           [M |-> Abc, ctx |-> App, rnd |-> Bytes(32, 0)]}
           [] set = 65 -> {[M |-> Abc, ctx |-> App, rnd |-> Bytes(32, 255)]}
           [] set = 87 -> {[M |-> Abc, ctx |-> <<>>, rnd |-> Bytes(32, 255)]}

\* the run of the KAT scenario, which the other scenarios of section 8 extend
KatRun ==
    /\ dsa.set = 44
    /\ dsa.M = Abc /\ dsa.ctx = <<>> /\ dsa.rnd = Bytes(32, 0)

DsaInitial(set) ==
    [pc |-> "start", set |-> set, xi |-> Xi, kgCalls |-> 0, sgCalls |-> 0,
     seeds |-> <<>>, nonce |-> 0, A |-> <<>>, s1 |-> <<>>, s2 |-> <<>>,
     pk |-> <<>>, sk |-> <<>>, pk1 |-> <<>>, sk1 |-> <<>>,
     M |-> <<>>, ctx |-> <<>>, rnd |-> <<>>, mu |-> <<>>, rhoPP |-> <<>>,
     t0 |-> <<>>, kappa |-> 0, attempts |-> 0, y |-> <<>>, w |-> <<>>,
     ctilde |-> <<>>, sigma |-> <<>>, sigma1 |-> <<>>, error |-> "",
     vf |-> [kind |-> "", pos |-> 0, pk |-> <<>>, sig |-> <<>>, M |-> <<>>, ctx |-> <<>>],
     dec |-> <<>>, result |-> "none", serialized |-> [pk |-> <<>>, sk |-> <<>>],
     expanded |-> [rho |-> <<>>, k |-> 0, l |-> 0, A |-> <<>>]]

\* ExpandA is a function of rho, k and l.  The matrix KeyGen has expanded is
\* kept with its arguments, and a later call with the same arguments takes
\* it from there: its value is that of ExpandA(rho, k, l).
ExpandAOf(rho, k, l) ==
    IF dsa.expanded.rho = rho /\ dsa.expanded.k = k /\ dsa.expanded.l = l
    THEN dsa.expanded.A
    ELSE ExpandA(rho, k, l)

\* sign_message and verify_signature throw std::invalid_argument for an
\* empty message
RefusesEmptyMessage(M) == Len(M) = 0

\* InputValidator::validate_context_string
validate_context_string_Limit256(context) ==
    IF Len(context) > 256 THEN "INVALID_CONTEXT" ELSE "SUCCESS"

validate_context_string(context) ==
    IF Len(context) > 255 THEN "INVALID_CONTEXT" ELSE "SUCCESS"

\* The error with which sign refuses its inputs before it computes, "" when
\* it goes on.
SignRefusal(M, ctx) ==
    IF RefusesEmptyMessage(M) THEN "invalid_argument"
    ELSE IF validate_context_string(ctx) # "SUCCESS" THEN "ContextTooLong"
    ELSE ""

\* ColorSignPublicKey::serialize and ColorSignPrivateKey::serialize: the
\* two seeds, the hash of the public key and the color-encoded polynomials
SerializeKey(seed_rho, seed_K, hash_tr, polys) ==
    seed_rho \o seed_K \o hash_tr \o encode_polynomial_vector_as_colors(polys, q_)

\* a caller that holds the keys of set 44 may generate them once more from
\* the same seed
MayRepeatKeyGen ==
    /\ dsa.pc = "keys" /\ dsa.set = 44
    /\ dsa.kgCalls = 1 /\ dsa.sgCalls = 0

\* a caller that holds the signature of the KAT run may sign once more with
\* the same inputs
MayRepeatSign ==
    /\ dsa.pc = "signed" /\ KatRun
    /\ dsa.kgCalls = 1 /\ dsa.sgCalls = 1

\* the nonce counter of KeyGen step 3 starts at 0
FirstNonce_Carried == dsa.nonce
FirstNonce == 0

\* KeyGen step 1: (rho || rho' || K) = SHAKE-256(xi || l || k, 128)
KgSeeds ==
    /\ dsa.pc = "start" \/ MayRepeatKeyGen
    /\ dsa' = [dsa EXCEPT !.pc = "kg_seeded",
                          !.seeds = shake256(dsa.xi \o <<ParamSet(dsa.set).l,
                                                         ParamSet(dsa.set).k>>, 128),
                          !.nonce = FirstNonce]
    /\ UNCHANGED <<xof, ntt, rej, col, cose, par, chk, ct, thr, ari, smp, pad>>

\* KeyGen steps 2 and 3: A from rho; s1 and s2 by CBD from rho' || nonce
KgExpand ==
    /\ dsa.pc = "kg_seeded"
    /\ dsa' =
        (LET P == ParamSet(dsa.set)
             rho == SubSeq(dsa.seeds, 1, 32)
             rhoPrime == SubSeq(dsa.seeds, 33, 96)
             withA(A) ==
                 [dsa EXCEPT
                     !.pc = "kg_expanded",
                     !.A = A,
                     !.expanded = [rho |-> rho, k |-> P.k, l |-> P.l, A |-> A],
                     !.s1 = [r \in 1..P.l |-> CBD(rhoPrime, dsa.nonce + r - 1, P.eta)] \o <<>>,
                     !.s2 = [r \in 1..P.k |->
                               CBD(rhoPrime, dsa.nonce + P.l + r - 1, P.eta)] \o <<>>,
                     !.nonce = dsa.nonce + P.l + P.k]
         IN withA(ExpandA(rho, P.k, P.l)))
    /\ UNCHANGED <<xof, ntt, rej, col, cose, par, chk, ct, thr, ari, smp, pad>>

\* KeyGen steps 4 to 8: t = A * NTT(s1) + s2, (t1, t0) = Power2Round(t),
\* pk = rho || pack_t1(t1), tr = SHAKE-256(pk, 64),
\* sk = rho || K || tr || pack_eta(s1) || pack_eta(s2) || pack_t0(t0)
KgKeys ==
    /\ dsa.pc = "kg_expanded"
    /\ dsa' =
        (LET P == ParamSet(dsa.set)
             rho == SubSeq(dsa.seeds, 1, 32)
             K == SubSeq(dsa.seeds, 97, 128)
             tOf(as1) == [i \in 1..P.k |-> PolyAdd(as1[i], dsa.s2[i])] \o <<>>
             t1Of(t) == [i \in 1..P.k |->
                           [j \in 1..n_ |-> Power2Round(t[i][j]).r1] \o <<>>] \o <<>>
             t0Of(t) == [i \in 1..P.k |->
                           [j \in 1..n_ |-> (q_ + Power2Round(t[i][j]).r0) % q_] \o <<>>] \o <<>>
             pkOf(t1) == rho \o Flatten([i \in 1..P.k |-> BitPack(t1[i], 10)] \o <<>>)
             skOf(pk, t0) == rho \o K \o shake256(pk, 64)
                                 \o PackVec(dsa.s1, EtaBits(P.eta), P.eta)
                                 \o PackVec(dsa.s2, EtaBits(P.eta), P.eta)
                                 \o PackVec(t0, d_, 2 ^ (d_ - 1))
             returned(pk, sk, t, t0) ==
                 [dsa EXCEPT
                     !.pc = "keys", !.kgCalls = dsa.kgCalls + 1,
                     !.pk = pk, !.sk = sk,
                     !.serialized =
                         [pk |-> SerializeKey(rho, K, SubSeq(sk, 65, 128), t),
                          sk |-> SerializeKey(rho, K, SubSeq(sk, 65, 128),
                                              dsa.s1 \o dsa.s2 \o t0)],
                     !.pk1 = IF dsa.kgCalls = 0 THEN pk ELSE dsa.pk1,
                     !.sk1 = IF dsa.kgCalls = 0 THEN sk ELSE dsa.sk1,
                     !.seeds = <<>>, !.A = <<>>, !.s1 = <<>>, !.s2 = <<>>]
             withPk(pk, t) == returned(pk, skOf(pk, t0Of(t)), t, t0Of(t))
             withT(t) == withPk(pkOf(t1Of(t)), t)
         IN withT(tOf(InvNttVec(MatVec(dsa.A, NttVec(dsa.s1))))))
    /\ UNCHANGED <<xof, ntt, rej, col, cose, par, chk, ct, thr, ari, smp, pad>>

\* Sign, up to the loop: the inputs are validated, sk is unpacked and s1,
\* s2, t0 are NTT-transformed (step 1), A is reconstructed (step 2),
\* mu (step 3), rho'' = SHAKE-256(K || rnd || mu, 64) (step 4), kappa (step 5)
SgStart(in) ==
    /\ \/ /\ dsa.pc = "keys" /\ dsa.kgCalls = 1 /\ dsa.sgCalls = 0
          /\ in \in SignInputs(dsa.set)
       \/ /\ MayRepeatSign
          /\ in = [M |-> dsa.M, ctx |-> dsa.ctx, rnd |-> dsa.rnd]
    /\ dsa' =
        (LET P == ParamSet(dsa.set)
             eb == EtaBits(P.eta)
             called == [dsa EXCEPT !.M = in.M, !.ctx = in.ctx, !.rnd = in.rnd,
                                   !.sigma = <<>>, !.error = ""]
             loop(mu) ==
                 [called EXCEPT
                     !.pc = "signing",
                     !.s1 = NttVec(UnpackVec(dsa.sk, 128, P.l, eb, P.eta)),
                     !.s2 = NttVec(UnpackVec(dsa.sk, 128 + 32 * eb * P.l, P.k, eb, P.eta)),
                     !.t0 = NttVec(UnpackVec(dsa.sk, 128 + 32 * eb * (P.l + P.k), P.k,
                                             d_, 2 ^ (d_ - 1))),
                     !.A = ExpandAOf(SubSeq(dsa.sk, 1, 32), P.k, P.l),
                     !.mu = mu,
                     !.rhoPP = RhoPPOf(SubSeq(dsa.sk, 33, 64), in.rnd, mu),
                     !.kappa = 0,
                     !.attempts = 0]
         IN IF SignRefusal(in.M, in.ctx) # ""
            THEN [called EXCEPT !.pc = "sign_failed", !.error = SignRefusal(in.M, in.ctx)]
            ELSE loop(MuOf(SubSeq(dsa.sk, 65, 128), in.ctx, in.M)))
    /\ UNCHANGED <<xof, ntt, rej, col, cose, par, chk, ct, thr, ari, smp, pad>>

\* Sign steps 6a to 6d, or the failure after MaxKappaIncrements attempts
SgCommit ==
    /\ dsa.pc = "signing"
    /\ dsa' =
        (IF Exhausted(dsa.attempts)
         THEN [dsa EXCEPT !.pc = "sign_failed", !.error = "RejectionExhausted"]
         ELSE LET P == ParamSet(dsa.set)
                  w1Of(w) == [i \in 1..P.k |->
                                [j \in 1..n_ |-> HighBits(w[i][j], 2 * P.gamma2)] \o <<>>] \o <<>>
                  committed(y, w) ==
                      [dsa EXCEPT !.pc = "committed",
                                  !.y = y, !.w = w,
                                  !.ctilde = ChallengeHash(P, dsa.mu, w1Of(w)),
                                  !.kappa = NextKappa(dsa.kappa, P.l),
                                  !.attempts = dsa.attempts + 1]
                  withY(y) == committed(y, InvNttVec(MatVec(dsa.A, NttVec(y))))
              IN withY(ExpandMask(dsa.rhoPP, dsa.kappa, P.l, P.gamma1)))
    /\ UNCHANGED <<xof, ntt, rej, col, cose, par, chk, ct, thr, ari, smp, pad>>

\* Sign steps 6e to 6m and 7: the attempt is rejected and the loop goes
\* on, or the signature c~ || pack_z(z) || pack_h(h) is returned
SgRespond ==
    /\ dsa.pc = "committed"
    /\ dsa' =
        (LET P == ParamSet(dsa.set)
             zOf(ch) == [i \in 1..P.l |->
                           PolyAdd(dsa.y[i], InverseNTT(PolyMul(ch, dsa.s1[i])))] \o <<>>
             wcs2Of(ch) == [i \in 1..P.k |->
                              PolySub(dsa.w[i], InverseNTT(PolyMul(ch, dsa.s2[i])))] \o <<>>
             r0Of(wcs2) ==
                 [i \in 1..P.k |->
                    [j \in 1..n_ |-> (q_ + LowBits(wcs2[i][j], 2 * P.gamma2)) % q_] \o <<>>] \o <<>>
             ct0Of(ch) == [i \in 1..P.k |-> InverseNTT(PolyMul(ch, dsa.t0[i]))] \o <<>>
             hOf(wcs2, ct0) ==
                 [i \in 1..P.k |->
                    [j \in 1..n_ |-> MakeHint((q_ - ct0[i][j]) % q_,
                                              (wcs2[i][j] + ct0[i][j]) % q_,
                                              2 * P.gamma2)] \o <<>>] \o <<>>
             rejected(z, r0, ct0, h) ==
                 \/ NormInf(z) >= P.gamma1 - P.beta
                 \/ NormInf(r0) >= P.gamma2 - P.beta
                 \/ NormInf(ct0) >= P.gamma2
                 \/ Popcount(h) > P.omega
             returned(sigma) ==
                 [dsa EXCEPT
                     !.pc = "signed", !.sgCalls = dsa.sgCalls + 1,
                     !.sigma = sigma,
                     !.sigma1 = IF dsa.sgCalls = 0 THEN sigma ELSE dsa.sigma1,
                     !.A = <<>>, !.s1 = <<>>, !.s2 = <<>>, !.t0 = <<>>,
                     !.y = <<>>, !.w = <<>>, !.rhoPP = <<>>]
             decide(z, r0, ct0, h) ==
                 IF rejected(z, r0, ct0, h)
                 THEN [dsa EXCEPT !.pc = "signing", !.y = <<>>, !.w = <<>>]
                 ELSE returned(dsa.ctilde \o PackVec(z, ZBits(P.gamma1), P.gamma1)
                                          \o PackHint(h, P.omega))
             withParts(z, wcs2, ct0) == decide(z, r0Of(wcs2), ct0, hOf(wcs2, ct0))
             withC(ch) == withParts(zOf(ch), wcs2Of(ch), ct0Of(ch))
         IN withC(NTT(SampleInBall(dsa.ctilde, P.tau))))
    /\ UNCHANGED <<xof, ntt, rej, col, cose, par, chk, ct, thr, ari, smp, pad>>

\* bytes with the byte at position pos changed
ChangeByte(bytes, pos) == [bytes EXCEPT ![pos] = (bytes[pos] + 1) % 256]

\* the malformed inputs of verify: a signature or a public key one byte
\* short, one byte long or empty, a last row end beyond omega, a first row
\* end beyond the second, a z with a coefficient gamma1, a context of 256
\* bytes
Malformed ==
    {"short_sig", "long_sig", "empty_sig", "short_pk", "long_pk", "empty_pk",
     "row_end", "row_order", "large_z", "long_ctx"}

\* The calls of verify a caller makes with a signature it has obtained:
\* with the inputs as they are; with malformed inputs; for set 44, with the
\* empty context where the signature was made with "app"; and, in the KAT
\* run, with the last byte of M changed ("abd"), with the last byte before
\* the row ends of sig changed, with the last byte of pk changed, and with
\* the empty message and the signature {{}, {}, {0}}.
VerifyCalls ==
    {[kind |-> c, pos |-> 0] : c \in {"honest"} \cup Malformed}
    \cup (IF dsa.set = 44 /\ dsa.ctx = App
          THEN {[kind |-> "other_ctx", pos |-> 0]} ELSE {})
    \cup (IF KatRun
          THEN {[kind |-> "msg_byte", pos |-> Len(dsa.M)],
                [kind |-> "sig_byte", pos |-> Len(dsa.sigma) - ParamSet(dsa.set).k],
                [kind |-> "pk_byte", pos |-> Len(dsa.pk)],
                [kind |-> "empty_message", pos |-> 0]}
          ELSE {})

\* the arguments of a call of verify
VerifyInputs(call) ==
    LET P == ParamSet(dsa.set)
        c == P.lambda \div 4
        n == Len(dsa.sigma)
    IN [kind |-> call.kind, pos |-> call.pos,
        pk |-> CASE call.kind = "pk_byte" -> ChangeByte(dsa.pk, call.pos)
                 [] call.kind = "short_pk" -> SubSeq(dsa.pk, 1, Len(dsa.pk) - 1)
                 [] call.kind = "long_pk" -> dsa.pk \o <<0>>
                 [] call.kind = "empty_pk" -> <<>>
                 [] OTHER -> dsa.pk,
        sig |-> CASE call.kind = "sig_byte" -> ChangeByte(dsa.sigma, call.pos)
                  [] call.kind = "short_sig" -> SubSeq(dsa.sigma, 1, n - 1)
                  [] call.kind = "long_sig" -> dsa.sigma \o <<0>>
                  [] call.kind = "empty_sig" -> <<>>
                  [] call.kind = "row_end" -> [dsa.sigma EXCEPT ![n] = P.omega + 1]
                  [] call.kind = "row_order" -> [dsa.sigma EXCEPT ![n - P.k + 1] = P.omega]
                  [] call.kind = "large_z" ->
                        [dsa.sigma EXCEPT ![c + 1] = 0, ![c + 2] = 0, ![c + 3] = 0]
                  [] call.kind = "empty_message" -> <<0>>
                  [] OTHER -> dsa.sigma,
        M |-> CASE call.kind = "msg_byte" -> ChangeByte(dsa.M, call.pos)
                [] call.kind = "empty_message" -> <<>>
                [] OTHER -> dsa.M,
        ctx |-> CASE call.kind = "other_ctx" -> (IF dsa.ctx = <<>> THEN App ELSE <<>>)
                  [] call.kind = "long_ctx" -> Bytes(256, 0)
                  [] OTHER -> dsa.ctx]

\* Verify steps 1 and 2.  An empty message is refused with
\* std::invalid_argument; a wrong length, a row end out of range, a z of
\* norm >= gamma1 - beta and more than omega hints give false.
VfDecode(call) ==
    /\ dsa.pc = "signed" /\ dsa.sgCalls = 1
    /\ call \in VerifyCalls
    /\ dsa' =
        (LET P == ParamSet(dsa.set)
             vf == VerifyInputs(call)
             c == P.lambda \div 4
             zEnd == c + 32 * ZBits(P.gamma1) * P.l
             z == UnpackVec(vf.sig, c, P.l, ZBits(P.gamma1), P.gamma1)
             hint == UnpackHint(SubSeq(vf.sig, zEnd + 1, Len(vf.sig)), P.omega, P.k)
             t1 == [i \in 1..P.k |->
                      BitUnpack(SubSeq(vf.pk, 32 + 320 * (i - 1) + 1, 32 + 320 * i),
                                10, n_)] \o <<>>
             called == [dsa EXCEPT !.vf = vf, !.pc = "verified"]
         IN IF RefusesEmptyMessage(vf.M)
            THEN [called EXCEPT !.result = "invalid_argument"]
            ELSE IF \/ Len(vf.pk) # Sizes(P).pk
                    \/ Len(vf.sig) # Sizes(P).sig
                    \/ Len(vf.ctx) > 255
                    \/ ~hint.ok
                    \/ NormInf(z) >= P.gamma1 - P.beta
                    \/ Popcount(hint.h) > P.omega
            THEN [called EXCEPT !.result = "false"]
            ELSE [called EXCEPT
                     !.pc = "decoded",
                     !.dec = [rho |-> SubSeq(vf.pk, 1, 32), t1 |-> t1,
                              ctilde |-> SubSeq(vf.sig, 1, c), z |-> z, h |-> hint.h]])
    /\ UNCHANGED <<xof, ntt, rej, col, cose, par, chk, ct, thr, ari, smp, pad>>

\* Verify step 3: A from rho, mu as in Sign with tr = SHAKE-256(pk, 64)
VfExpand ==
    /\ dsa.pc = "decoded"
    /\ dsa' = [dsa EXCEPT
                  !.pc = "expanded",
                  !.A = ExpandAOf(dsa.dec.rho, ParamSet(dsa.set).k, ParamSet(dsa.set).l),
                  !.mu = MuOf(shake256(dsa.vf.pk, 64), dsa.vf.ctx, dsa.vf.M)]
    /\ UNCHANGED <<xof, ntt, rej, col, cose, par, chk, ct, thr, ari, smp, pad>>

\* Verify steps 4 to 8: c, w_approx = A * z - c * t1 * 2^d, w1' by UseHint,
\* accept iff SHAKE-256(mu || pack_w1(w1'), lambda / 4) = c~
VfDecide ==
    /\ dsa.pc = "expanded"
    /\ dsa' =
        (LET P == ParamSet(dsa.set)
             t1Shifted(i) == [j \in 1..n_ |-> (dsa.dec.t1[i][j] * (2 ^ d_)) % q_] \o <<>>
             wApprox(ch, az) ==
                 [i \in 1..P.k |->
                    InverseNTT(PolySub(az[i], PolyMul(ch, NTT(t1Shifted(i)))))] \o <<>>
             w1Of(w) == [i \in 1..P.k |->
                           [j \in 1..n_ |-> UseHint(dsa.dec.h[i][j], w[i][j],
                                                    2 * P.gamma2)] \o <<>>] \o <<>>
             decided(w1) ==
                 [dsa EXCEPT
                     !.pc = "verified",
                     !.result = IF ChallengeHash(P, dsa.mu, w1) = dsa.dec.ctilde
                                THEN "true" ELSE "false",
                     !.A = <<>>, !.dec = <<>>]
         IN decided(w1Of(wApprox(NTT(SampleInBall(dsa.dec.ctilde, P.tau)),
                                 MatVec(dsa.A, NttVec(dsa.dec.z))))))
    /\ UNCHANGED <<xof, ntt, rej, col, cose, par, chk, ct, thr, ari, smp, pad>>

InitDsa ==
    /\ \E set \in DsaSets : dsa = DsaInitial(set)
    /\ xof = Idle /\ ntt = Idle /\ rej = Idle /\ col = Idle /\ cose = Idle /\ par = Idle /\ chk = Idle /\ ct = Idle /\ thr = Idle /\ ari = Idle /\ smp = Idle /\ pad = Idle

NextDsa ==
    \/ KgSeeds \/ KgExpand \/ KgKeys
    \/ (\E in \in SignInputs(dsa.set) : SgStart(in))
    \/ SgCommit \/ SgRespond
    \/ (\E call \in VerifyCalls : VfDecode(call))
    \/ VfExpand \/ VfDecide

SpecDsa == InitDsa /\ [][NextDsa]_vars

(***************************************************************************)
(* The control of the rejection loop of section 4.7 alone.  Whether an     *)
(* attempt is accepted depends on the output of the XOF; here it is left   *)
(* open, so that every course the loop can take is a behaviour.            *)
(***************************************************************************)
RejAttempt(accepted) ==
    /\ rej.pc = "loop" /\ ~Exhausted(rej.attempts)
    /\ rej' = [rej EXCEPT !.pc = IF accepted THEN "signed" ELSE "loop",
                          !.kappa = NextKappa(rej.kappa, ParamSet(rej.set).l),
                          !.attempts = rej.attempts + 1]
    /\ UNCHANGED <<xof, ntt, dsa, col, cose, par, chk, ct, thr, ari, smp, pad>>

RejFail ==
    /\ rej.pc = "loop" /\ Exhausted(rej.attempts)
    /\ rej' = [rej EXCEPT !.pc = "RejectionExhausted"]
    /\ UNCHANGED <<xof, ntt, dsa, col, cose, par, chk, ct, thr, ari, smp, pad>>

InitRej ==
    /\ \E set \in DsaSets : rej = [pc |-> "loop", set |-> set, kappa |-> 0, attempts |-> 0]
    /\ xof = Idle /\ ntt = Idle /\ dsa = Idle /\ col = Idle /\ cose = Idle /\ par = Idle /\ chk = Idle /\ ct = Idle /\ thr = Idle /\ ari = Idle /\ smp = Idle /\ pad = Idle

NextRej == (\E accepted \in BOOLEAN : RejAttempt(accepted)) \/ RejFail

\* the loop is one sequential computation: a step that can be taken is taken
SpecRej == InitRej /\ [][NextRej]_vars /\ WF_vars(NextRej)

C2_VerifyNeverThrows ==
    (dsa.pc = "verified") => (dsa.result \in {"true", "false"})

C4_OtherContextIsRejected ==
    (dsa.pc = "verified" /\ dsa.vf.kind = "other_ctx") => (dsa.result = "false")

\* a signature made with ctx = "app" has been verified with ctx = ""
C4_Witness ==
    /\ dsa.pc = "verified" /\ dsa.vf.kind = "other_ctx"
    /\ dsa.ctx = App /\ dsa.vf.ctx = <<>>
    /\ dsa.vf.sig = dsa.sigma /\ dsa.vf.M = dsa.M /\ dsa.vf.pk = dsa.pk

C15_SerializedLengthsAreFixed ==
    LET fixed == CASE dsa.set = 44 -> [pk |-> 1312, sk |-> 2560, sig |-> 2420]
                   [] dsa.set = 65 -> [pk |-> 1952, sk |-> 4032, sig |-> 3309]
                   [] dsa.set = 87 -> [pk |-> 2592, sk |-> 4896, sig |-> 4627]
    IN /\ dsa.kgCalls > 0 =>
            /\ Len(dsa.serialized.pk) = fixed.pk
            /\ Len(dsa.serialized.sk) = fixed.sk
       /\ dsa.pc = "signed" => Len(dsa.sigma) = fixed.sig

MaxColorK == 2
MaxColorN == 2
ColorModuli == {0, 3, 257, q_}
ColorCoeffs(modulus) == {0, 1, modulus - 1, modulus, q_ - 1, -1}

ColorPolys(n, modulus) ==
    {[j \in 1..n |-> c] \o <<>> : c \in ColorCoeffs(modulus)}
    \cup {[j \in 1..n |-> IF j = 1 THEN c ELSE 0] \o <<>> : c \in ColorCoeffs(modulus)}

ColorVectors(k, n, modulus) ==
    {[i \in 1..k |-> IF i = 1 THEN p ELSE r] \o <<>> :
        p \in ColorPolys(n, modulus), r \in ColorPolys(n, modulus)}

\* dimensions whose product times four does not fit a uint32_t
WideDims == {[k |-> 32768, n |-> 32768], [k |-> 16384, n |-> 65536]}

ColorDims == {[k |-> k, n |-> n] : k \in 0..MaxColorK + 1, n \in 0..MaxColorN + 1} \cup WideDims

ColorInitial(v, k, n, modulus) ==
    [pc |-> "vector", poly_vector |-> v, k |-> k, n |-> n, modulus |-> modulus,
     color_data |-> <<>>, cut |-> FALSE, call |-> "none", dims |-> [k |-> k, n |-> n],
     result |-> [kind |-> "none"]]

ColEncode ==
    /\ col.pc = "vector"
    /\ col' = [col EXCEPT !.pc = "encoded",
                          !.color_data = encode_polynomial_vector_as_colors(col.poly_vector, col.modulus)]
    /\ UNCHANGED <<xof, ntt, dsa, rej, cose, par, chk, ct, thr, ari, smp, pad>>

\* color data of another length: bytes dropped from the end, or one added
ColCut ==
    /\ col.pc = "encoded" /\ ~col.cut
    /\ \E len \in {0, Len(col.color_data) - 4, Len(col.color_data) - 1, Len(col.color_data) + 1} :
         /\ len >= 0
         /\ col' = [col EXCEPT !.cut = TRUE,
                               !.color_data = [b \in 1..len |-> IF b <= Len(col.color_data)
                                                               THEN col.color_data[b] ELSE 0] \o <<>>]
    /\ UNCHANGED <<xof, ntt, dsa, rej, cose, par, chk, ct, thr, ari, smp, pad>>

ColDecodePoly ==
    /\ col.pc = "encoded"
    /\ col' = [col EXCEPT !.pc = "decoded", !.call = "polynomial",
                          !.result = decode_colors_to_polynomial(col.color_data, col.modulus)]
    /\ UNCHANGED <<xof, ntt, dsa, rej, cose, par, chk, ct, thr, ari, smp, pad>>

ColDecodeVector ==
    /\ col.pc = "encoded"
    /\ \E d \in ColorDims :
         \E r \in decode_colors_to_polynomial_vector(col.color_data, d.k, d.n, col.modulus) :
            col' = [col EXCEPT !.pc = "decoded", !.call = "vector", !.dims = d, !.result = r]
    /\ UNCHANGED <<xof, ntt, dsa, rej, cose, par, chk, ct, thr, ari, smp, pad>>

\* The outcomes of unpack_polynomial_vector (utils.cpp): the size check is
\* data.size() != k * n * 4 on uint32_t as well, the words are read least
\* significant byte first and no modulus is applied.  Data shorter than
\* the k * n words the loop reads is read past its end, as above.
unpack_polynomial_vector(data, k, n) ==
    LET word(b0, b1, b2, b3) ==
            (IF b3 >= 128 THEN b3 - 256 ELSE b3) * 16777216 + b2 * 65536 + b1 * 256 + b0
        coeff(offset) == word(data[offset + 1], data[offset + 2],
                              data[offset + 3], data[offset + 4])
    IN IF ~VectorSizeMatches(Len(data), k, n)
       THEN {[kind |-> "invalid_argument"]}
       ELSE IF k * n > Len(data) \div 4
       THEN {[kind |-> "bad_alloc"], [kind |-> "undefined"]}
       ELSE {[kind |-> "ok",
              value |-> [i \in 1..k |-> [j \in 1..n |->
                           coeff(4 * ((i - 1) * n + (j - 1)))] \o <<>>] \o <<>>]}

ColUnpackVector ==
    /\ col.pc = "encoded"
    /\ \E d \in ColorDims :
         \E r \in unpack_polynomial_vector(col.color_data, d.k, d.n) :
            col' = [col EXCEPT !.pc = "decoded", !.call = "unpack", !.dims = d, !.result = r]
    /\ UNCHANGED <<xof, ntt, dsa, rej, cose, par, chk, ct, thr, ari, smp, pad>>

InitColor ==
    /\ \E k \in 1..MaxColorK, n \in 1..MaxColorN, modulus \in ColorModuli :
         \E v \in ColorVectors(k, n, modulus) : col = ColorInitial(v, k, n, modulus)
    /\ xof = Idle /\ ntt = Idle /\ dsa = Idle /\ rej = Idle /\ cose = Idle /\ par = Idle /\ chk = Idle /\ ct = Idle /\ thr = Idle /\ ari = Idle /\ smp = Idle /\ pad = Idle

NextColor == ColEncode \/ ColCut \/ ColDecodePoly \/ ColDecodeVector \/ ColUnpackVector

SpecColor == InitColor /\ [][NextColor]_vars

\* size is 4 * n * k, as numbers
LengthIsFourNK(size, k, n) == size % 4 = 0 /\ size \div 4 = k * n

\* every coefficient of the vector is in [0, modulus)
InRange(v, modulus) ==
    \A i \in 1..Len(v) : \A j \in 1..Len(v[i]) : v[i][j] >= 0 /\ v[i][j] < modulus

\* C11: a vector of k polynomials of n coefficients, all in [0, modulus),
\* that was encoded as colors and decoded with the same k, n and modulus
\* comes back exactly as it was.
C11_ColorRoundTrip ==
    (/\ col.pc = "decoded" /\ col.call = "vector" /\ ~col.cut
     /\ col.dims = [k |-> col.k, n |-> col.n]
     /\ InRange(col.poly_vector, col.modulus))
    => col.result = [kind |-> "ok", value |-> col.poly_vector]

C11_Witness ==
    /\ col.pc = "decoded" /\ col.call = "vector" /\ ~col.cut
    /\ col.dims = [k |-> 2, n |-> 2] /\ col.k = 2 /\ col.n = 2 /\ col.modulus = q_
    /\ col.poly_vector[1][1] = q_ - 1
    /\ col.result = [kind |-> "ok", value |-> col.poly_vector]

\* C12: color data whose length is not a multiple of 4 is refused by
\* decode_colors_to_polynomial, color data whose length is not 4 * n * k is
\* refused by decode_colors_to_polynomial_vector, both with an exception
\* and without coefficients being returned.
C12_WrongLengthIsRefused ==
    /\ (col.pc = "decoded" /\ col.call = "polynomial" /\ Len(col.color_data) % 4 # 0)
         => col.result.kind = "invalid_argument"
    /\ (col.pc = "decoded" /\ col.call = "vector"
          /\ ~LengthIsFourNK(Len(col.color_data), col.dims.k, col.dims.n))
         => col.result.kind = "invalid_argument"

\* C28: decode_colors_to_polynomial_vector and unpack_polynomial_vector
\* never read past the end of the buffer they are given, whatever k and n
\* are, also when the 32-bit product k * n * 4 wraps around.
C28_ReadsStayInsideBuffer ==
    (col.pc = "decoded" /\ col.call \in {"vector", "unpack"})
        => col.result.kind # "undefined"

(***************************************************************************)
(* COSE_Sign1 envelope and its CBOR coding   (cose.hpp, cose.cpp)          *)
(*                                                                         *)
(* data[offset] of the code is data[offset + 1] here.  A decoder returns   *)
(* [kind |-> "ok", value, offset] or the record of the exception thrown.   *)
(***************************************************************************)

UNSIGNED_INT == 0
BYTE_STRING == 2
ARRAY == 4
MAP == 5

Thrown(what) == [kind |-> "invalid_argument", what |-> what]

\* the bytes of len from bit `from` down to bit 0, eight bits at a time
BigEndian(len, from) == [b \in 1..(from \div 8 + 1) |-> (len \div 2 ^ (from - 8 * (b - 1))) % 256] \o <<>>

\* the initial byte of major type major and the length bytes, as
\* encode_uint, encode_bstr, encode_array and encode_map write them
CborHead(major, len, widest) ==
    IF len < 24 THEN <<major * 32 + len>>
    ELSE IF len <= 255 \/ widest = 24 THEN <<major * 32 + 24, len % 256>>
    ELSE IF len <= 65535 THEN <<major * 32 + 25>> \o BigEndian(len, 8)
    ELSE <<major * 32 + 26>> \o BigEndian(len, 24)

encode_uint(value) == CborHead(UNSIGNED_INT, value, 27)

encode_bstr(data) == CborHead(BYTE_STRING, Len(data), 26) \o data

RECURSIVE Concat(_)
Concat(items) == IF items = <<>> THEN <<>> ELSE Head(items) \o Concat(Tail(items))

encode_array(items) == CborHead(ARRAY, Len(items), 24) \o Concat(items)

\* pairs is a sequence of <<key, encoded value>>
encode_map(pairs) ==
    CborHead(MAP, Len(pairs), 24)
    \o Concat([p \in 1..Len(pairs) |-> encode_uint(pairs[p][1]) \o pairs[p][2]])

decode_uint(data, offset) ==
    IF offset >= Len(data) THEN Thrown("CBOR decode: out of bounds")
    ELSE LET initial == data[offset + 1]
             minor == initial % 32
         IN IF initial \div 32 # UNSIGNED_INT THEN Thrown("CBOR decode: not unsigned int")
            ELSE IF minor < 24 THEN [kind |-> "ok", value |-> minor, offset |-> offset + 1]
            ELSE IF minor = 24
            THEN IF offset + 1 >= Len(data) THEN Thrown("CBOR decode: incomplete uint")
                 ELSE [kind |-> "ok", value |-> data[offset + 2], offset |-> offset + 2]
            ELSE Thrown("CBOR decode: large uint not supported")

decode_bstr(data, offset) ==
    IF offset >= Len(data) THEN Thrown("CBOR decode: out of bounds")
    ELSE LET initial == data[offset + 1]
             minor == initial % 32
             body(len, at) ==
                 IF at + len > Len(data) THEN Thrown("CBOR decode: bstr data incomplete")
                 ELSE [kind |-> "ok", value |-> SubSeq(data, at + 1, at + len), offset |-> at + len]
         IN IF initial \div 32 # BYTE_STRING THEN Thrown("CBOR decode: not byte string")
            ELSE IF minor < 24 THEN body(minor, offset + 1)
            ELSE IF minor = 24
            THEN IF offset + 1 >= Len(data) THEN Thrown("CBOR decode: incomplete bstr len")
                 ELSE body(data[offset + 2], offset + 2)
            ELSE Thrown("CBOR decode: large bstr not supported")

\* the loop of decode_array: len items, each a byte string
RECURSIVE DecodeItems(_, _, _, _)
DecodeItems(data, offset, len, result) ==
    IF Len(result) = len THEN [kind |-> "ok", value |-> result, offset |-> offset]
    ELSE LET next(item) == IF item.kind = "ok"
                           THEN DecodeItems(data, item.offset, len, Append(result, item.value))
                           ELSE item
         IN next(decode_bstr(data, offset))

decode_array(data, offset) ==
    IF offset >= Len(data) THEN Thrown("CBOR decode: out of bounds")
    ELSE LET initial == data[offset + 1]
             minor == initial % 32
         IN IF initial \div 32 # ARRAY THEN Thrown("CBOR decode: not array")
            ELSE IF minor < 24 THEN DecodeItems(data, offset + 1, minor, <<>>)
            ELSE IF minor = 24
            THEN IF offset + 1 >= Len(data) THEN Thrown("CBOR decode: incomplete array len")
                 ELSE DecodeItems(data, offset + 2, data[offset + 2], <<>>)
            ELSE Thrown("CBOR decode: large array not supported")

encode_cose_header(header) == encode_map(<< <<1, encode_uint(header.alg)>> >>)

decode_cose_header(cbor_data) ==
    IF 0 >= Len(cbor_data) THEN Thrown("Empty CBOR data")
    ELSE IF cbor_data[1] \div 32 # MAP THEN Thrown("Not a map")
    ELSE IF cbor_data[1] % 32 # 1 THEN Thrown("Expected map of length 1")
    ELSE LET alg(key) == IF key.kind # "ok" THEN key
                         ELSE IF key.value # 1 THEN Thrown("Expected alg key")
                         ELSE decode_uint(cbor_data, key.offset)
         IN alg(decode_uint(cbor_data, 1))

encode_cose_sign1(cose_msg) ==
    encode_array(<<encode_bstr(cose_msg.protected_header),
                   encode_bstr(cose_msg.unprotected_header),
                   encode_bstr(cose_msg.payload),
                   encode_bstr(cose_msg.signature)>>)

decode_cose_sign1(cbor_data) ==
    LET built(items) ==
            IF items.kind # "ok" THEN items
            ELSE IF Len(items.value) # 4 THEN Thrown("COSE_Sign1 must have 4 elements")
            ELSE [kind |-> "ok",
                  value |-> [protected_header |-> items.value[1],
                             unprotected_header |-> items.value[2],
                             payload |-> items.value[3],
                             signature |-> items.value[4]]]
    IN built(decode_array(cbor_data, 0))

\* ColorSignature::deserialize: a signature of the length of the set
DeserializeSignature(bytes, set) ==
    IF Len(bytes) # Sizes(ParamSet(set)).sig THEN Thrown("Invalid signature size")
    ELSE [kind |-> "ok", value |-> bytes]

extract_colorsign_from_cose(cose_msg, set) == DeserializeSignature(cose_msg.signature, set)

\* The identifiers of ML-DSA-44, -65 and -87 in protected headers.
COSE_ALG_ML_DSA == [set \in DsaSets |-> CASE set = 44 -> 48 [] set = 65 -> 49 [] set = 87 -> 50]

\* The envelopes of the runs: lengths on both sides of every length form
\* of encode_bstr, and the signature lengths of the three sets.
CoseAlgs == {0, 23, 24, 48, 49, 50, 255}
CosePayloadLens == {0, 3, 23, 24, 255, 256}
CoseSignatureLens == {0, 23, 24, 255, 256} \cup {Sizes(ParamSet(set)).sig : set \in DsaSets}

CoseValues ==
    {[protected_header |-> encode_cose_header([alg |-> alg]),
      unprotected_header |-> encode_map(<<>>),
      payload |-> Bytes(p, 97),
      signature |-> Bytes(s, 165)] : alg \in CoseAlgs, p \in CosePayloadLens, s \in CoseSignatureLens}

CoseEncode ==
    /\ cose.pc = "value"
    /\ cose' = [cose EXCEPT !.pc = "encoded", !.cbor_data = encode_cose_sign1(cose.cose_msg)]
    /\ UNCHANGED <<xof, ntt, dsa, rej, col, par, chk, ct, thr, ari, smp, pad>>

CoseDecode ==
    /\ cose.pc = "encoded"
    /\ cose' = [cose EXCEPT !.pc = "decoded", !.result = decode_cose_sign1(cose.cbor_data)]
    /\ UNCHANGED <<xof, ntt, dsa, rej, col, par, chk, ct, thr, ari, smp, pad>>

CoseExtract ==
    /\ cose.pc = "value"
    /\ \E set \in DsaSets :
         cose' = [cose EXCEPT !.pc = "extracted", !.set = set,
                              !.result = extract_colorsign_from_cose(cose.cose_msg, set)]
    /\ UNCHANGED <<xof, ntt, dsa, rej, col, par, chk, ct, thr, ari, smp, pad>>

InitCose ==
    /\ \E m \in CoseValues :
         cose = [pc |-> "value", cose_msg |-> m, cbor_data |-> <<>>, set |-> 0,
                 result |-> [kind |-> "none"]]
    /\ xof = Idle /\ ntt = Idle /\ dsa = Idle /\ rej = Idle /\ col = Idle /\ par = Idle /\ chk = Idle /\ ct = Idle /\ thr = Idle /\ ari = Idle /\ smp = Idle /\ pad = Idle

NextCose == CoseEncode \/ CoseDecode \/ CoseExtract

SpecCose == InitCose /\ [][NextCose]_vars

\* C13: a well-formed COSE_Sign1 value, whatever the lengths of its four
\* fields, that was encoded and decoded comes back with the four fields
\* byte for byte.
C13_CoseRoundTrip ==
    cose.pc = "decoded" => cose.result = [kind |-> "ok", value |-> cose.cose_msg]

\* C14: extracting the signature from an envelope whose protected header
\* names an algorithm that is not one of the ML-DSA identifiers fails with
\* an error and returns no signature.
C14_UnknownAlgIsRefused ==
    (/\ cose.pc = "extracted"
     /\ decode_cose_header(cose.cose_msg.protected_header).kind = "ok"
     /\ \A set \in DsaSets :
          decode_cose_header(cose.cose_msg.protected_header).value # COSE_ALG_ML_DSA[set])
    => cose.result.kind = "invalid_argument"

(***************************************************************************)
(* CLWEParameters   (parameters.hpp, parameters.cpp)                       *)
(***************************************************************************)

\* n & (n - 1) == 0 for n > 0
IsPowerOfTwo(n) == \E e \in 0..30 : n = 2 ^ e

\* trial division by 2, 3 and the numbers 6m - 1 and 6m + 1 up to the root
is_prime(n) ==
    IF n <= 1 THEN FALSE
    ELSE IF n <= 3 THEN TRUE
    ELSE IF n % 2 = 0 \/ n % 3 = 0 THEN FALSE
    ELSE ~\E m \in 0..700 : LET i == 5 + 6 * m
                            IN i * i <= n /\ (n % i = 0 \/ n % (i + 2) = 0)

\* a validate that does not look at the security level and stops after the
\* module rank
validate_AnyLevel(p) ==
    IF p.degree = 0 \/ ~IsPowerOfTwo(p.degree) \/ p.degree > 8192
    THEN Thrown("Invalid degree: must be a power of 2 between 1 and 8192")
    ELSE IF p.module_rank = 0 \/ p.module_rank > 16
    THEN Thrown("Invalid module rank: must be between 1 and 16")
    ELSE [kind |-> "ok"]

\* CLWEParameters::validate: the first check that fails throws
validate(p) ==
    IF p.security_level # 44 /\ p.security_level # 65 /\ p.security_level # 87
    THEN Thrown("Invalid security level: must be 44, 65, or 87")
    ELSE IF p.degree = 0 \/ ~IsPowerOfTwo(p.degree) \/ p.degree > 8192
    THEN Thrown("Invalid degree: must be a power of 2 between 1 and 8192")
    ELSE IF p.module_rank = 0 \/ p.module_rank > 16
    THEN Thrown("Invalid module rank: must be between 1 and 16")
    ELSE IF p.repetitions = 0 \/ p.repetitions > 16
    THEN Thrown("Invalid repetitions: must be between 1 and 16")
    ELSE IF ~is_prime(p.modulus) \/ p.modulus < 256 \/ p.modulus > 16777216
    THEN Thrown("Invalid modulus: must be a prime between 256 and 16777216")
    ELSE IF p.eta = 0 \/ p.eta > 16
    THEN Thrown("Invalid eta: must be between 1 and 16")
    ELSE IF p.tau = 0 \/ p.tau > p.degree
    THEN Thrown("Invalid tau: must be between 1 and degree")
    ELSE IF p.beta = 0
    THEN Thrown("Invalid beta: must be positive")
    ELSE IF p.gamma1 = 0 \/ p.gamma1 > 2 ^ 20
    THEN Thrown("Invalid gamma1: must be between 1 and 2^20")
    ELSE IF p.gamma2 = 0
    THEN Thrown("Invalid gamma2: must be positive")
    ELSE IF p.omega = 0
    THEN Thrown("Invalid omega: must be positive")
    ELSE IF p.lambda # 128 /\ p.lambda # 192 /\ p.lambda # 256
    THEN Thrown("Invalid lambda: must be 128, 192, or 256")
    ELSE [kind |-> "ok"]

\* the members of the object constructed for a level: the row of the level,
\* the row of 44 for a level without a row
ParamFields_RanksSwapped(sec_level) ==
    LET row(P) == [security_level |-> sec_level, degree |-> n_, module_rank |-> P.l,
                   repetitions |-> P.k, modulus |-> q_, eta |-> P.eta, tau |-> P.tau,
                   beta |-> P.beta, gamma1 |-> P.gamma1, gamma2 |-> P.gamma2,
                   omega |-> P.omega, lambda |-> P.lambda]
    IN row(ParamSet(IF sec_level \in DsaSets THEN sec_level ELSE 44))

ParamFields(sec_level) ==
    LET row(P) == [security_level |-> sec_level, degree |-> n_, module_rank |-> P.k,
                   repetitions |-> P.l, modulus |-> q_, eta |-> P.eta, tau |-> P.tau,
                   beta |-> P.beta, gamma1 |-> P.gamma1, gamma2 |-> P.gamma2,
                   omega |-> P.omega, lambda |-> P.lambda]
    IN row(ParamSet(IF sec_level \in DsaSets THEN sec_level ELSE 44))

\* CLWEParameters(sec_level): the members are set, then validate() runs
CLWEParameters(sec_level) ==
    LET checked(p, v) == IF v.kind = "ok" THEN [kind |-> "ok", value |-> p] ELSE v
    IN checked(ParamFields(sec_level), validate(ParamFields(sec_level)))

\* InputValidator::validate_parameters
validate_parameters(p) ==
    IF validate(p).kind = "ok" THEN "SUCCESS" ELSE "INVALID_PARAMETERS"

\* The levels passed to the constructor and the members assigned afterwards.
ParamLevels == {0, 1, 43, 44, 45, 64, 65, 66, 86, 87, 88, 99, 100, 128, 192, 256, 512, 768, 1024}
ParamAssignments ==
    {[member |-> "security_level", value |-> v] : v \in ParamLevels}
    \cup {[member |-> "degree", value |-> v] : v \in {0, 255, 256, 512, 16384}}
    \cup {[member |-> "module_rank", value |-> v] : v \in {0, 4, 16, 17}}
    \cup {[member |-> "modulus", value |-> v] : v \in {0, 251, 3329, 8380415, q_}}
    \cup {[member |-> "gamma1", value |-> v] : v \in {0, 2 ^ 17, 2 ^ 20, 2 ^ 20 + 1}}
    \cup {[member |-> "lambda", value |-> v] : v \in {0, 128, 160, 256}}
MaxAssignments == 2

ParConstruct ==
    /\ par.pc = "start"
    /\ \E sec_level \in ParamLevels :
         par' = [par EXCEPT !.pc = "constructed", !.sec_level = sec_level,
                            !.call = "constructor",
                            !.result = CLWEParameters(sec_level)]
    /\ UNCHANGED <<xof, ntt, dsa, rej, col, cose, chk, ct, thr, ari, smp, pad>>

\* params.member = value on an object that was constructed
ParAssign ==
    /\ par.pc \in {"constructed", "assigned", "validated"}
    /\ par.object # <<>> \/ (par.call = "constructor" /\ par.result.kind = "ok")
    /\ par.assignments < MaxAssignments
    /\ \E a \in ParamAssignments :
         par' = [par EXCEPT !.pc = "assigned", !.assignments = @ + 1,
                            !.object = [(IF par.object = <<>> THEN par.result.value ELSE par.object)
                                           EXCEPT ![a.member] = a.value]]
    /\ UNCHANGED <<xof, ntt, dsa, rej, col, cose, chk, ct, thr, ari, smp, pad>>

\* params.validate() and InputValidator::validate_parameters(params)
ParValidate ==
    /\ par.pc = "assigned"
    /\ par' = [par EXCEPT !.pc = "validated", !.call = "validate",
                          !.result = validate(par.object),
                          !.error = validate_parameters(par.object)]
    /\ UNCHANGED <<xof, ntt, dsa, rej, col, cose, chk, ct, thr, ari, smp, pad>>

InitParams ==
    /\ par = [pc |-> "start", sec_level |-> 0, call |-> "none", object |-> <<>>,
              assignments |-> 0, result |-> [kind |-> "none"], error |-> "none"]
    /\ xof = Idle /\ ntt = Idle /\ dsa = Idle /\ rej = Idle /\ col = Idle /\ cose = Idle /\ chk = Idle /\ ct = Idle /\ thr = Idle /\ ari = Idle /\ smp = Idle /\ pad = Idle

NextParams == ParConstruct \/ ParAssign \/ ParValidate

SpecParams == InitParams /\ [][NextParams]_vars

\* C16: the object constructed for level 44, 65 or 87 has n = 256,
\* q = 8380417 and the row of its level:
\* (k, l, eta, tau, beta, gamma1, gamma2, omega, lambda) =
\* (4, 4, 2, 39, 78, 2^17, (q-1)/88, 80, 128),
\* (6, 5, 4, 49, 196, 2^19, (q-1)/32, 55, 192),
\* (8, 7, 2, 60, 120, 2^19, (q-1)/32, 75, 256).
C16_ConstructedRowIsTableRow ==
    (par.pc = "constructed" /\ par.sec_level \in {44, 65, 87}) =>
        /\ par.result.kind = "ok"
        /\ par.result.value.degree = 256 /\ par.result.value.modulus = 8380417
        /\ par.result.value.security_level = par.sec_level
        /\ LET p == par.result.value
               row == <<p.module_rank, p.repetitions, p.eta, p.tau, p.beta,
                        p.gamma1, p.gamma2, p.omega, p.lambda>>
           IN CASE par.sec_level = 44 -> row = <<4, 4, 2, 39, 78, 131072, 95232, 80, 128>>
                [] par.sec_level = 65 -> row = <<6, 5, 4, 49, 196, 524288, 261888, 55, 192>>
                [] par.sec_level = 87 -> row = <<8, 7, 2, 60, 120, 524288, 261888, 75, 256>>

C16_Witness ==
    /\ par.pc = "constructed" /\ par.sec_level = 65 /\ par.result.kind = "ok"
    /\ par.result.value.module_rank = 6 /\ par.result.value.repetitions = 5

\* C17: constructing parameters for a level other than 44, 65 and 87, and
\* validating an object whose level is not one of them, fails with
\* invalid_argument (INVALID_PARAMETERS from the input validator).
C17_OtherLevelIsRefused ==
    /\ (par.pc = "constructed" /\ par.sec_level \notin {44, 65, 87})
         => par.result.kind = "invalid_argument"
    /\ (par.pc = "validated" /\ par.object.security_level \notin {44, 65, 87})
         => (par.result.kind = "invalid_argument" /\ par.error = "INVALID_PARAMETERS")

C17_Witness ==
    /\ par.pc = "validated" /\ par.object.security_level = 99
    /\ par.object.module_rank = 4 /\ par.object.gamma1 = 2 ^ 17
    /\ par.result.kind = "invalid_argument" /\ par.error = "INVALID_PARAMETERS"

(***************************************************************************)
(* The checks of the context string   (InputValidator and sign)            *)
(*                                                                         *)
(* A caller holds a message and a context string, asks the validator      *)
(* about the context and calls sign; recorded are the status the           *)
(* validator returns and the error with which sign refuses, "" when sign   *)
(* goes on to compute.                                                     *)
(***************************************************************************)
MaxContextLen == 300

ValContexts == {Bytes(len, 255) : len \in 0..MaxContextLen}

ValContext ==
    /\ chk.status = "none"
    /\ chk' = [chk EXCEPT !.status = validate_context_string(chk.ctx)]
    /\ UNCHANGED <<xof, ntt, dsa, rej, col, cose, par, ct, thr, ari, smp, pad>>

ValSign ==
    /\ chk.error = "none"
    /\ chk' = [chk EXCEPT !.error = SignRefusal(chk.M, chk.ctx)]
    /\ UNCHANGED <<xof, ntt, dsa, rej, col, cose, par, ct, thr, ari, smp, pad>>

InitVal ==
    /\ \E M \in {<<>>, Abc}, ctx \in ValContexts :
          chk = [M |-> M, ctx |-> ctx, status |-> "none", error |-> "none"]
    /\ xof = Idle /\ ntt = Idle /\ dsa = Idle /\ rej = Idle /\ col = Idle /\ cose = Idle /\ par = Idle /\ ct = Idle /\ thr = Idle /\ ari = Idle /\ smp = Idle /\ pad = Idle

NextVal == ValContext \/ ValSign

SpecVal == InitVal /\ [][NextVal]_vars

montgomery_reduce_branches_SignCorrection(val) == <<montgomery_reduce(val) < 0>>

montgomery_reduce_branches(val) == <<>>

\* bit_reverse: for every i the read of bitrev_[i], the branch
\* i < bitrev_[i] and, where it is taken, the swap
bit_reverse_trace(poly) ==
    [m \in 1..n_ |->
        [op |-> "bit_reverse",
         branches |-> <<(m - 1) < bitrev_[m]>>,
         accesses |-> <<<<"bitrev_", m - 1>>>>
                      \o (IF (m - 1) < bitrev_[m]
                          THEN <<<<"bitrev_", m - 1>>, <<"poly", m - 1>>,
                                 <<"poly", bitrev_[m]>>>>
                          ELSE <<>>)]] \o <<>>

\* One level of ntt_forward or ntt_inverse: for every block the guard
\* k < size and, where the block runs, the read of the zeta at index k++
\* (forward) or k-- (inverse) and the butterflies of the block.  The blocks
\* that run are the first ran of the level (see ForwardBlocks), each of
\* 1 + len/2 steps; the others are their guard alone.
LevelTrace(poly, len, blocks, table, k, forward) ==
    LET half == len \div 2
        index(b) == IF forward THEN U32Add(k, b - 1) ELSE U32Sub(k, b - 1)
        butterfly(j, zeta) ==
            [op |-> "butterfly",
             branches |-> montgomery_reduce_branches(Mul64(U64(poly[j + half + 1]),
                                                           I64(zeta))),
             accesses |-> <<<<"poly", j>>, <<"poly", j + half>>,
                            <<"poly", j>>, <<"poly", j + half>>>>]
        guard(b) ==
            [op |-> "block",
             branches |-> <<blocks[b].run>>,
             accesses |-> IF blocks[b].run THEN <<<<table, index(b)>>>> ELSE <<>>]
        ran == Cardinality({b \in 1..(n_ \div len) : blocks[b].run})
        step(m) ==
            IF m > ran * (half + 1) THEN guard(ran + m - ran * (half + 1))
            ELSE IF (m - 1) % (half + 1) = 0 THEN guard(((m - 1) \div (half + 1)) + 1)
            ELSE butterfly(((m - 1) \div (half + 1)) * len + ((m - 1) % (half + 1)) - 1,
                           blocks[((m - 1) \div (half + 1)) + 1].zeta)
    IN [m \in 1..(ran * half + (n_ \div len)) |-> step(m)] \o <<>>

RECURSIVE ForwardLevelsTrace(_, _, _)
ForwardLevelsTrace(poly, len, k) ==
    IF len > n_ THEN <<>>
    ELSE LET from(level) ==
                 LevelTrace(poly, len, level.blocks, "zetas_", k, TRUE)
                 \o ForwardLevelsTrace(ButterflyLevel(poly, len, level.blocks),
                                       2 * len, level.k)
         IN from(ForwardBlocks(len, k))

\* the trace of ntt_forward(poly)
ntt_forward_trace(poly) ==
    bit_reverse_trace(poly) \o ForwardLevelsTrace(bit_reverse(poly), 2, 1)

RECURSIVE InverseLevelsTrace(_, _, _)
InverseLevelsTrace(poly, len, k) ==
    IF len < 2 THEN <<>>
    ELSE LET from(level) ==
                 LevelTrace(poly, len, level.blocks, "zetas_inv_", k, FALSE)
                 \o InverseLevelsTrace(ButterflyLevel(poly, len, level.blocks),
                                       len \div 2, level.k)
         IN from(InverseBlocks(len, k))

\* the trace of ntt_inverse(poly): the levels, bit_reverse and the scaling
\* poly[i] = montgomery_reduce((int64_t)poly[i] * n_inv_)
ntt_inverse_trace(poly) ==
    LET scaling(swapped) ==
            [m \in 1..n_ |->
                [op |-> "scale",
                 branches |-> montgomery_reduce_branches(Mul64(U64(swapped[m]),
                                                               U64(n_inv_))),
                 accesses |-> <<<<"poly", m - 1>>, <<"poly", m - 1>>>>]] \o <<>>
        after(levels) ==
            bit_reverse_trace(levels) \o scaling(bit_reverse(levels))
    IN InverseLevelsTrace(poly, n_ \div 2, (n_ \div 2) - 1)
       \o after(InverseLevels(poly, n_ \div 2, (n_ \div 2) - 1))

\* void ScalarNTTEngine::multiply(const uint32_t* a, const uint32_t* b,
\*                                uint32_t* result) const
multiply(a, b) ==
    LET product(a_ntt, b_ntt) ==
            [i \in 1..n_ |->
                montgomery_reduce(Mul64(U64(a_ntt[i]), U64(b_ntt[i])))] \o <<>>
    IN ntt_inverse(product(ntt_forward(a), ntt_forward(b)))

\* the trace of multiply(a, b, result): the two copies, the two forward
\* transforms, the pointwise products and the inverse transform
multiply_trace(a, b) ==
    LET copy(from, to) ==
            [m \in 1..n_ |->
                [op |-> "copy", branches |-> <<>>,
                 accesses |-> <<<<from, m - 1>>, <<to, m - 1>>>>]] \o <<>>
        pointwise(a_ntt, b_ntt) ==
            [m \in 1..n_ |->
                [op |-> "product",
                 branches |-> montgomery_reduce_branches(Mul64(U64(a_ntt[m]),
                                                               U64(b_ntt[m]))),
                 accesses |-> <<<<"a_ntt", m - 1>>, <<"b_ntt", m - 1>>,
                                <<"result", m - 1>>>>]] \o <<>>
        rest(a_ntt, b_ntt) ==
            pointwise(a_ntt, b_ntt)
            \o ntt_inverse_trace([i \in 1..n_ |->
                    montgomery_reduce(Mul64(U64(a_ntt[i]), U64(b_ntt[i])))] \o <<>>)
    IN copy("a", "a_ntt") \o copy("b", "b_ntt")
       \o ntt_forward_trace(a) \o ntt_forward_trace(b)
       \o rest(ntt_forward(a), ntt_forward(b))

\* Two callers with operands of their own run the same operation.
CtOperands ==
    {[a |-> Constant(0), b |-> Constant(0)],
     [a |-> Constant(1), b |-> Constant(q_ - 1)],
     [a |-> Constant(q_ - 1), b |-> Monomial(1, 2)],
     [a |-> Monomial(0, 1), b |-> Monomial(255, q_ - 1)],
     [a |-> Monomial(127, (q_ - 1) \div 2), b |-> Constant(1)],
     [a |-> Monomial(128, q_ - 1), b |-> Monomial(3, (q_ - 1) \div 2)]}

CtForward ==
    /\ ct.op = "none"
    /\ ct' = [ct EXCEPT !.op = "ntt_forward",
                        !.results = <<ntt_forward(ct.first.a), ntt_forward(ct.second.a)>>,
                        !.traces = <<ntt_forward_trace(ct.first.a),
                                     ntt_forward_trace(ct.second.a)>>]
    /\ UNCHANGED <<xof, ntt, dsa, rej, col, cose, par, chk, thr, ari, smp, pad>>

CtInverse ==
    /\ ct.op = "none"
    /\ ct' = [ct EXCEPT !.op = "ntt_inverse",
                        !.results = <<ntt_inverse(ct.first.a), ntt_inverse(ct.second.a)>>,
                        !.traces = <<ntt_inverse_trace(ct.first.a),
                                     ntt_inverse_trace(ct.second.a)>>]
    /\ UNCHANGED <<xof, ntt, dsa, rej, col, cose, par, chk, thr, ari, smp, pad>>

CtMultiply ==
    /\ ct.op = "none"
    /\ ct' = [ct EXCEPT !.op = "multiply",
                        !.results = <<multiply(ct.first.a, ct.first.b),
                                      multiply(ct.second.a, ct.second.b)>>,
                        !.traces = <<multiply_trace(ct.first.a, ct.first.b),
                                     multiply_trace(ct.second.a, ct.second.b)>>]
    /\ UNCHANGED <<xof, ntt, dsa, rej, col, cose, par, chk, thr, ari, smp, pad>>

InitCt ==
    /\ \E first \in CtOperands, second \in CtOperands :
          ct = [op |-> "none", first |-> first, second |-> second,
                results |-> <<>>, traces |-> <<>>]
    /\ xof = Idle /\ ntt = Idle /\ dsa = Idle /\ rej = Idle /\ col = Idle /\ cose = Idle /\ par = Idle /\ chk = Idle /\ thr = Idle /\ ari = Idle /\ smp = Idle /\ pad = Idle

NextCt == CtForward \/ CtInverse \/ CtMultiply

SpecCt == InitCt /\ [][NextCt]_vars

\* C20: in ntt_forward, ntt_inverse and multiply, with the reductions they
\* call, the branches taken and the memory locations accessed are the same
\* for any two inputs.
C20_TraceIsDataIndependent ==
    ct.op # "none" => ct.traces[1] = ct.traces[2]

C20_Witness ==
    /\ ct.op = "multiply"
    /\ ct.results[1] # ct.results[2]
    /\ Len(ct.traces[1]) > 3 * n_
    /\ ct.traces[1] = ct.traces[2]

\* every coefficient is in [0, q_)
Reduced(poly) == \A i \in 1..Len(poly) : poly[i] >= 0 /\ poly[i] < q_

\* C25: when ntt_forward, ntt_inverse or multiply returns, every
\* coefficient of the output is in [0, q), for inputs with coefficients in
\* [0, q).
C25_OutputsAreReduced ==
    ct.op # "none" => Reduced(ct.results[1]) /\ Reduced(ct.results[2])

\* the entries of zetas_ and zetas_inv_ that precompute_zetas fills from
\* zetas_ml_dsa: those of index 1 .. 127
Populated(k) == k >= 1 /\ k < 128

\* C29: in ntt_forward and ntt_inverse the twiddle index k of every block
\* of every level is the index of a populated entry of the table: the guard
\* skips no block and no entry that was left at zero is used.
C29_TwiddleIndexIsPopulated ==
    ct.op \in {"ntt_forward", "ntt_inverse"} =>
        \A r \in 1..2 : \A m \in 1..Len(ct.traces[r]) :
            ct.traces[r][m].op = "block" =>
                /\ ct.traces[r][m].branches[1]
                /\ Populated(ct.traces[r][m].accesses[1][2])

(***************************************************************************)
(* Operations in parallel threads                                          *)
(*                                                                         *)
(* Two threads each run an operation of their own: the XOF expansion with  *)
(* which KeyGen (step 1), Sign (step 4) or Verify (mu) begins, as calls of *)
(* a SHAKE256Sampler: init with the seed, then one squeeze per output.     *)
(* The calls of the two threads interleave in every order; a call itself   *)
(* runs on the object it is given and on nothing else.                     *)
(***************************************************************************)
Threads == {1, 2}

\* the sampler the operation of thread t works on: one the thread owns
OwnSampler_ProcessWide(t) == 1

OwnSampler(t) == t

\* the seed an operation absorbs and the lengths it squeezes, in order
ThreadOps ==
    {[name |-> "KeyGen", seed |-> Bytes(32, 0) \o <<ParamSet(44).l, ParamSet(44).k>>,
      chunks |-> <<32, 64, 32>>],
     [name |-> "KeyGen", seed |-> Bytes(32, 255) \o <<ParamSet(65).l, ParamSet(65).k>>,
      chunks |-> <<32, 64, 32>>],
     [name |-> "Sign", seed |-> Bytes(32, 1) \o Bytes(32, 0) \o Bytes(64, 2),
      chunks |-> <<64>>],
     [name |-> "Verify", seed |-> Bytes(64, 3) \o <<0, Len(App)>> \o App \o Abc,
      chunks |-> <<64>>]}

\* the bytes the squeezes of chunks return one after the other
RECURSIVE SqueezeAll(_, _)
SqueezeAll(s, chunks) ==
    IF chunks = <<>> THEN <<>>
    ELSE LET rest(r) == r.out \o SqueezeAll(r.sampler, Tail(chunks))
         IN rest(SamplerSqueeze(s, Head(chunks)))

\* what the operation returns when it runs with no other
RunAlone(op) == SqueezeAll(SamplerInit(SamplerNew(SHAKE256_RATE), op.seed), op.chunks)

Finished(t) == thr.pc[t] = Len(thr.op[t].chunks) + 1
Underway(t) == thr.pc[t] > 0 /\ ~Finished(t)

\* sampler.init(seed) of the operation of thread t
ThrInit(t) ==
    /\ thr.pc[t] = 0
    /\ thr' = [thr EXCEPT
                  !.sampler[OwnSampler(t)] = SamplerInit(@, thr.op[t].seed),
                  !.pc[t] = 1,
                  !.overlapped = @ \/ (\E u \in Threads \ {t} : Underway(u))]
    /\ UNCHANGED <<xof, ntt, dsa, rej, col, cose, par, chk, ct, ari, smp, pad>>

\* the next sampler.squeeze(out, len) of the operation of thread t
ThrSqueeze(t) ==
    /\ Underway(t)
    /\ LET squeezed(r) ==
               [thr EXCEPT
                   !.sampler[OwnSampler(t)] = r.sampler,
                   !.out[t] = @ \o r.out,
                   !.pc[t] = @ + 1,
                   !.overlapped = @ \/ (\E u \in Threads \ {t} : Underway(u))]
       IN thr' = squeezed(SamplerSqueeze(thr.sampler[OwnSampler(t)],
                                         thr.op[t].chunks[thr.pc[t]]))
    /\ UNCHANGED <<xof, ntt, dsa, rej, col, cose, par, chk, ct, ari, smp, pad>>

InitThreads ==
    /\ \E op1 \in ThreadOps, op2 \in ThreadOps :
          thr = [op |-> <<op1, op2>>,
                 sampler |-> <<SamplerNew(SHAKE256_RATE), SamplerNew(SHAKE256_RATE)>>,
                 pc |-> <<0, 0>>, out |-> <<<<>>, <<>>>>, overlapped |-> FALSE]
    /\ xof = Idle /\ ntt = Idle /\ dsa = Idle /\ rej = Idle /\ col = Idle /\ cose = Idle /\ par = Idle /\ chk = Idle /\ ct = Idle /\ ari = Idle /\ smp = Idle /\ pad = Idle

NextThreads == \E t \in Threads : ThrInit(t) \/ ThrSqueeze(t)

SpecThreads == InitThreads /\ [][NextThreads]_vars

U32AtLeast(a, b) == ~U32Less(a, b)

\* uint32_t ScalarNTTEngine::barrett_reduce(uint32_t val) const.  The
\* quotient estimate t = ((val * mu) >> 52) * q is computed and not used;
\* what is returned is val after at most two subtractions of q.
barrett_reduce(val) ==
    LET once == IF U32AtLeast(val, q_) THEN U32Sub(val, q_) ELSE val
    IN IF U32AtLeast(val, q_) /\ U32AtLeast(once, q_) THEN U32Sub(once, q_) ELSE once

\* compute_high_bits: w1[i] = (w[i] + 2^(d-1)) / 2^d, the sum taken on
\* uint64_t (for w[i] below 2^31 - 2^(d-1) it is the sum of the integers)
compute_high_bits(w, d) ==
    LET shift == 2 ^ (d - 1)
        divisor == 2 ^ d
    IN [i \in 1..Len(w) |-> (w[i] + shift) \div divisor] \o <<>>

\* arguments of barrett_reduce: the values next to every multiple of q
\* that fits a uint32_t (512 * q is the last), and the largest uint32_t
\* (which is -1 here)
BarrettInputs ==
    {U32Add(U32Mul(m, q_), delta) : m \in 0..512, delta \in {-1, 0, 1}}

\* arguments of montgomery_reduce as the transforms make them:
\* (int64_t)v * zeta for a coefficient v and a twiddle zeta, and
\* (int64_t)v * n_inv_; all are below q * 2^31 in absolute value
MontgomeryInputs ==
    {[v |-> v, zeta |-> z] :
        v \in {0, 1, 2, 255, 256, (q_ - 1) \div 2, q_ - 2, q_ - 1},
        z \in {zetas_ml_dsa[m] : m \in 1..24} \cup {n_inv_, 1, -1}}

\* arguments of compute_high_bits with d = 13: the values of [0, q) next
\* to every multiple of 2^12
HighBitsInputs ==
    {r \in {m * (2 ^ (d_ - 1)) + delta : m \in 0..(q_ \div (2 ^ (d_ - 1))), delta \in {-1, 0, 1}} :
        r >= 0 /\ r < q_}

ArBarrett ==
    /\ ari.pc = "call" /\ ari.fn = "barrett_reduce"
    /\ ari' = [ari EXCEPT !.pc = "returned", !.result = barrett_reduce(ari.arg)]
    /\ UNCHANGED <<xof, ntt, dsa, rej, col, cose, par, chk, ct, thr, smp, pad>>

ArMontgomery ==
    /\ ari.pc = "call" /\ ari.fn = "montgomery_reduce"
    /\ ari' = [ari EXCEPT !.pc = "returned",
                          !.result = montgomery_reduce(Mul64(U64(ari.arg.v), I64(ari.arg.zeta)))]
    /\ UNCHANGED <<xof, ntt, dsa, rej, col, cose, par, chk, ct, thr, smp, pad>>

ArHighBits ==
    /\ ari.pc = "call" /\ ari.fn = "compute_high_bits"
    /\ ari' = [ari EXCEPT !.pc = "returned", !.result = compute_high_bits(<<ari.arg>>, d_)[1]]
    /\ UNCHANGED <<xof, ntt, dsa, rej, col, cose, par, chk, ct, thr, smp, pad>>

InitArith ==
    /\ \/ \E val \in BarrettInputs :
            ari = [pc |-> "call", fn |-> "barrett_reduce", arg |-> val, result |-> 0]
       \/ \E a \in MontgomeryInputs :
            ari = [pc |-> "call", fn |-> "montgomery_reduce", arg |-> a, result |-> 0]
       \/ \E r \in HighBitsInputs :
            ari = [pc |-> "call", fn |-> "compute_high_bits", arg |-> r, result |-> 0]
    /\ xof = Idle /\ ntt = Idle /\ dsa = Idle /\ rej = Idle /\ col = Idle /\ cose = Idle /\ par = Idle /\ chk = Idle /\ ct = Idle /\ thr = Idle /\ smp = Idle /\ pad = Idle

NextArith == ArBarrett \/ ArMontgomery \/ ArHighBits

SpecArith == InitArith /\ [][NextArith]_vars

\* C24: for every 32-bit v, barrett_reduce(v) is in [0, q) and congruent
\* to v modulo q.
C24_BarrettReducesFully ==
    (ari.pc = "returned" /\ ari.fn = "barrett_reduce") =>
        /\ ari.result >= 0 /\ ari.result < q_
        /\ U32Mod(ari.result, q_) = U32Mod(ari.arg, q_)

\* C26: for every r in [0, q) and d = 13 the high part r1 that the
\* rounding returns leaves r0 = r - r1 * 2^d in (-2^(d-1), 2^(d-1)].
C26_LowPartIsInHalfOpenInterval ==
    (ari.pc = "returned" /\ ari.fn = "compute_high_bits") =>
        LET r0 == ari.arg - ari.result * (2 ^ d_)
        IN r0 > -(2 ^ (d_ - 1)) /\ r0 <= 2 ^ (d_ - 1)

\* C30: for every a with |a| < q * 2^31 the value r = montgomery_reduce(a)
\* satisfies r * 2^32 = a modulo q.
C30_MontgomeryDividesByR ==
    (ari.pc = "returned" /\ ari.fn = "montgomery_reduce") =>
        MulMod(ari.result % q_, Pow2Mod(32, q_))
            = MulMod(ari.arg.v % q_, ari.arg.zeta % q_)

(***************************************************************************)
(* Challenge and centered-binomial sampling   (utils.cpp)                  *)
(*                                                                         *)
(* Both draw from a SHAKE256Sampler.  A caller holds a seed and the        *)
(* parameters of one call, makes the call and holds the polynomial that    *)
(* was written.                                                            *)
(***************************************************************************)
\* the number of bits of temp: while (temp > 0) { bits_needed++; temp >>= 1; }
RECURSIVE BitsNeeded(_)
BitsNeeded(temp) == IF temp > 0 THEN 1 + BitsNeeded(temp \div 2) ELSE 0

\* SHAKE256Sampler::sample_uniform(modulus), for a modulus in 1 .. 2^30:
\* four bytes are squeezed and read least significant first, the word is
\* masked to the bits of modulus - 1 and returned when it is below the
\* modulus; otherwise four more bytes are squeezed.  The result is the
\* sampler afterwards and the value.
RECURSIVE sample_uniform(_, _)
sample_uniform(s, modulus) ==
    LET mask == 2 ^ BitsNeeded(modulus - 1)
        word(bytes) == (bytes[1] + 256 * bytes[2] + 65536 * bytes[3]
                         + 16777216 * (bytes[4] % 64)) % mask
        decide(sq) ==
            IF Len(sq.out) # 4 THEN [sampler |-> sq.sampler, value |-> 0]
            ELSE IF word(sq.out) < modulus
            THEN [sampler |-> sq.sampler, value |-> word(sq.out)]
            ELSE sample_uniform(sq.sampler, modulus)
    IN decide(SamplerSqueeze(s, 4))

\* positions[i] = positions[j] alone, where the code swaps
Swap_Overwrite(positions, i, j) == [positions EXCEPT ![i + 1] = positions[j + 1]]

\* std::swap(positions[i], positions[j])
Swap(positions, i, j) ==
    [positions EXCEPT ![i + 1] = positions[j + 1], ![j + 1] = positions[i + 1]]

\* the Fisher-Yates loop of sample_challenge from step i on:
\* j = i + sample_uniform(n - i); swap(positions[i], positions[j])
RECURSIVE ShuffleLoop(_, _, _, _)
ShuffleLoop(st, i, tau, n) ==
    IF i >= tau THEN st
    ELSE LET drawn(u) ==
                 [sampler |-> u.sampler,
                  positions |-> Swap(st.positions, i, i + u.value)]
             rest(nx) == IF Len(nx.positions) = n THEN ShuffleLoop(nx, i + 1, tau, n)
                         ELSE nx
         IN rest(drawn(sample_uniform(st.sampler, n - i)))

\* the loop that assigns the signs, from step i on: one byte is squeezed
\* and c[positions[i]] = (sign_byte & 1) ? 1 : (q - 1)
RECURSIVE SignLoop(_, _, _, _, _)
SignLoop(st, positions, i, tau, q) ==
    IF i >= tau THEN st.c
    ELSE LET signed(sq) ==
                 [sampler |-> sq.sampler,
                  c |-> [st.c EXCEPT ![positions[i + 1] + 1] =
                            IF sq.out[1] % 2 = 1 THEN 1 ELSE U32Sub(q, 1)]]
             rest(nx) == IF Len(nx.c) = Len(st.c) THEN SignLoop(nx, positions, i + 1, tau, q)
                         ELSE <<>>
         IN rest(signed(SamplerSqueeze(st.sampler, 1)))

\* void sample_challenge(c, seed, tau, n, q), for a c of n coefficients:
\* the value of c afterwards
sample_challenge(seed, tau, n, q) ==
    LET signs(shuffled) ==
            SignLoop([sampler |-> shuffled.sampler, c |-> [i \in 1..n |-> 0] \o <<>>],
                     shuffled.positions, 0, tau, q)
    IN signs(ShuffleLoop([sampler |-> SamplerInit(SamplerNew(SHAKE256_RATE), seed),
                          positions |-> [i \in 1..n |-> i - 1] \o <<>>],
                         0, tau, n))

\* int32_t SHAKE256Sampler::sample_binomial_coefficient(eta): eta bytes are
\* squeezed one at a time and their low bits added, eta more and their low
\* bits subtracted.  The result is the sampler afterwards and the sum.
RECURSIVE BinomialBits(_, _, _, _)
BinomialBits(st, i, eta, sign) ==
    IF i >= eta THEN st
    ELSE LET taken(sq) == [sampler |-> sq.sampler,
                           value |-> st.value + sign * (sq.out[1] % 2)]
         IN BinomialBits(taken(SamplerSqueeze(st.sampler, 1)), i + 1, eta, sign)

sample_binomial_coefficient(s, eta) ==
    BinomialBits(BinomialBits([sampler |-> s, value |-> 0], 0, eta, 1), 0, eta, -1)

\* coeffs[i] = (coeff % modulus + modulus) % modulus, where coeff is an
\* int32_t and modulus a uint32_t: coeff is converted to uint32_t and the
\* three operations are those of uint32_t
StoredCoefficient(coeff, modulus) ==
    U32Mod(U32Add(U32Mod(coeff, modulus), modulus), modulus)

\* the loop of sample_polynomial_binomial from coefficient i on; st holds
\* the sampler, the values sample_binomial_coefficient returned and the
\* coefficients written
RECURSIVE BinomialLoop(_, _, _, _, _)
BinomialLoop(st, i, degree, eta, modulus) ==
    IF i >= degree THEN st
    ELSE LET written(x) ==
                 [sampler |-> x.sampler,
                  samples |-> Append(st.samples, x.value),
                  coeffs |-> Append(st.coeffs, StoredCoefficient(x.value, modulus))]
             rest(nx) == IF Len(nx.coeffs) = i + 1
                         THEN BinomialLoop(nx, i + 1, degree, eta, modulus) ELSE nx
         IN rest(written(sample_binomial_coefficient(st.sampler, eta)))

\* void SHAKE256Sampler::sample_polynomial_binomial(coeffs, degree, eta,
\* modulus) on the sampler s: the samples drawn and the coeffs written
sample_polynomial_binomial(s, degree, eta, modulus) ==
    BinomialLoop([sampler |-> s, samples |-> <<>>, coeffs |-> <<>>], 0, degree, eta, modulus)

\* the seeds, and the tau and n of the calls of sample_challenge: every
\* tau <= n for small n, and the tau of the three parameter sets for n = 256
SamplingSeeds == XofSeeds \cup {Bytes(64, 42)}
ChallengeDims ==
    {[tau |-> tau, n |-> n] : tau \in 0..16, n \in {1, 2, 3, 8, 16}} \cup
    {[tau |-> ParamSet(set).tau, n |-> n_] : set \in DsaSets}
BinomialDegrees == {1, 8, 16}
BinomialEtas == {2, 4}

SmpChallenge ==
    /\ smp.pc = "call" /\ smp.fn = "sample_challenge"
    /\ smp' = [smp EXCEPT !.pc = "returned",
                          !.c = sample_challenge(smp.seed, smp.tau, smp.n, smp.q)]
    /\ UNCHANGED <<xof, ntt, dsa, rej, col, cose, par, chk, ct, thr, ari, pad>>

SmpBinomial ==
    /\ smp.pc = "call" /\ smp.fn = "sample_polynomial_binomial"
    /\ smp' =
        (LET done(r) == [smp EXCEPT !.pc = "returned", !.samples = r.samples,
                                    !.coeffs = r.coeffs]
         IN done(sample_polynomial_binomial(SamplerInit(SamplerNew(SHAKE256_RATE), smp.seed),
                                            smp.degree, smp.eta, smp.modulus)))
    /\ UNCHANGED <<xof, ntt, dsa, rej, col, cose, par, chk, ct, thr, ari, pad>>

InitSampling ==
    /\ \/ \E seed \in SamplingSeeds, d \in ChallengeDims :
            /\ d.tau <= d.n
            /\ smp = [pc |-> "call", fn |-> "sample_challenge", seed |-> seed,
                      tau |-> d.tau, n |-> d.n, q |-> q_, c |-> <<>>]
       \/ \E seed \in SamplingSeeds, degree \in BinomialDegrees, eta \in BinomialEtas :
            smp = [pc |-> "call", fn |-> "sample_polynomial_binomial", seed |-> seed,
                   degree |-> degree, eta |-> eta, modulus |-> q_,
                   samples |-> <<>>, coeffs |-> <<>>]
    /\ xof = Idle /\ ntt = Idle /\ dsa = Idle /\ rej = Idle /\ col = Idle /\ cose = Idle /\ par = Idle /\ chk = Idle /\ ct = Idle /\ thr = Idle /\ ari = Idle /\ pad = Idle

NextSampling == SmpChallenge \/ SmpBinomial

SpecSampling == InitSampling /\ [][NextSampling]_vars

\* C22: for every seed and every tau <= n, sample_challenge writes a
\* polynomial of n coefficients of which exactly tau are not zero, each of
\* them 1 or q - 1, and the other n - tau are zero.
C22_ChallengeHasTauUnits ==
    (smp.pc = "returned" /\ smp.fn = "sample_challenge") =>
        /\ Len(smp.c) = smp.n
        /\ Cardinality({i \in 1..smp.n : smp.c[i] # 0}) = smp.tau
        /\ Cardinality({i \in 1..smp.n : smp.c[i] = 0}) = smp.n - smp.tau
        /\ \A i \in 1..smp.n : smp.c[i] \in {0, 1, smp.q - 1}

\* a challenge of set 44 with both signs in it
C22_Witness ==
    /\ smp.pc = "returned" /\ smp.fn = "sample_challenge"
    /\ smp.n = n_ /\ smp.tau = ParamSet(44).tau
    /\ Cardinality({i \in 1..smp.n : smp.c[i] = 1}) > 0
    /\ Cardinality({i \in 1..smp.n : smp.c[i] = smp.q - 1}) > 0
    /\ Cardinality({i \in 1..smp.n : smp.c[i] # 0}) = smp.tau

\* C23: every coefficient that sample_polynomial_binomial writes stands for
\* a sample x in -eta .. eta and is x reduced modulo q: x for x >= 0 and
\* q + x for x < 0.
C23_BinomialIsStoredReduced ==
    (smp.pc = "returned" /\ smp.fn = "sample_polynomial_binomial") =>
        /\ Len(smp.coeffs) = smp.degree /\ Len(smp.samples) = smp.degree
        /\ \A i \in 1..smp.degree :
              /\ smp.samples[i] >= -smp.eta /\ smp.samples[i] <= smp.eta
              /\ smp.coeffs[i] = IF smp.samples[i] >= 0 THEN smp.samples[i]
                                 ELSE smp.modulus + smp.samples[i]

(***************************************************************************)
(* The padding of shake256 and of the samplers against the SHAKE sponge    *)
(*                                                                         *)
(* A caller hands an input to shake256, or to init of a SHAKE256Sampler or *)
(* a SHAKE128Sampler that it then squeezes.  Kept with the output are the  *)
(* state and offset the absorption left and the state the padding made of  *)
(* them, before the permutation.                                           *)
(***************************************************************************)
\* the padding of the SHAKE sponge: 0x1F is XORed into the byte at offset
\* and 0x80 into the last byte of the rate, nothing else changes
SpongePaddedState(state, rate_bytes, offset) ==
    XorIntoState(XorIntoState(state, offset, <<31>>, 0, 1), rate_bytes - 1, <<128>>, 0, 1)

\* the state and offset after the absorption of input into a fresh state
Absorbed(input, rate_bytes) ==
    IF Len(input) > 0 THEN absorb_bytes(ZeroState, rate_bytes, input, 0)
    ELSE [state |-> ZeroState, offset |-> 0]

\* output_len bytes of the SHAKE sponge of the rate on input
SpongeOutput(input, rate_bytes, output_len) ==
    LET squeezed(padded) ==
            IF Len(padded) = 25
            THEN squeeze_bytes(keccak_f1600(padded), rate_bytes, output_len, 0).out
            ELSE <<>>
        from(absorbed) == squeezed(SpongePaddedState(absorbed.state, rate_bytes, absorbed.offset))
    IN from(Absorbed(input, rate_bytes))

\* the inputs: shorter than a rate block, one byte less than one and than
\* two blocks, whole blocks, and longer than one block
PadLengths(rate_bytes) ==
    {0, 1, rate_bytes - 2, rate_bytes - 1, rate_bytes, rate_bytes + 1,
     2 * rate_bytes - 1, 2 * rate_bytes, 2 * rate_bytes + 28}
PadFills == {0, 42, 165, 255}
PadOutputLen == 32

PadInitial(fn, rate_bytes, input) ==
    [pc |-> "call", fn |-> fn, rate_bytes |-> rate_bytes, input |-> input,
     absorbed |-> [state |-> <<>>, offset |-> 0], padded |-> <<>>, out |-> <<>>]

\* shake256(input, PadOutputLen)
PadShake256 ==
    /\ pad.pc = "call" /\ pad.fn = "shake256"
    /\ pad' =
        (LET done(absorbed) ==
                 [pad EXCEPT !.pc = "returned", !.absorbed = absorbed,
                             !.padded = PaddedState(absorbed.state, 136, absorbed.offset),
                             !.out = shake256(pad.input, PadOutputLen)]
         IN done(Absorbed(pad.input, 136)))
    /\ UNCHANGED <<xof, ntt, dsa, rej, col, cose, par, chk, ct, thr, ari, smp>>

\* sampler.init(input, len); sampler.squeeze(out, PadOutputLen)
PadSampler ==
    /\ pad.pc = "call" /\ pad.fn = "sampler"
    /\ pad' =
        (LET fresh == SamplerNew(pad.rate_bytes)
             done(absorbed) ==
                 [pad EXCEPT !.pc = "returned",
                             !.absorbed = [state |-> absorbed.state_, offset |-> absorbed.offset_],
                             !.padded = PaddedState(absorbed.state_, pad.rate_bytes,
                                                    absorbed.offset_),
                             !.out = SamplerSqueeze(SamplerInit(fresh, pad.input),
                                                    PadOutputLen).out]
         IN done(IF Len(pad.input) > 0 THEN SamplerAbsorb(SamplerReset(fresh), pad.input)
                 ELSE SamplerReset(fresh)))
    /\ UNCHANGED <<xof, ntt, dsa, rej, col, cose, par, chk, ct, thr, ari, smp>>

InitPad ==
    /\ \/ \E len \in PadLengths(136), fill \in PadFills :
            pad = PadInitial("shake256", 136, Bytes(len, fill))
       \/ \E rate_bytes \in {SHAKE128_RATE, SHAKE256_RATE} :
            \E len \in PadLengths(rate_bytes), fill \in PadFills :
               pad = PadInitial("sampler", rate_bytes, Bytes(len, fill))
    /\ xof = Idle /\ ntt = Idle /\ dsa = Idle /\ rej = Idle /\ col = Idle /\ cose = Idle /\ par = Idle /\ chk = Idle /\ ct = Idle /\ thr = Idle /\ ari = Idle /\ smp = Idle

NextPad == PadShake256 \/ PadSampler

SpecPad == InitPad /\ [][NextPad]_vars

\* C27: for inputs of every length shake256 and the samplers compute the
\* SHAKE sponge: the padding XORs 0x1F into the state at the offset and
\* 0x80 into the last byte of the rate and changes no other byte of the
\* state before the permutation.
C27_PaddingOnlyXors ==
    pad.pc = "returned" =>
        /\ pad.padded = SpongePaddedState(pad.absorbed.state, pad.rate_bytes,
                                          pad.absorbed.offset)
        /\ pad.out = SpongeOutput(pad.input, pad.rate_bytes, PadOutputLen)
====
